---------------------------- MODULE Spec2Model ----------------------------
(***************************************************************************)
(* Model of the team-data codec of ss-rom-hack (src/sslib): the 5-bit text *)
(* codec, the packed-position simulator, the region locator, the chain     *)
(* walker, decode_rom, validate_teams and update_rom.                      *)
(*                                                                         *)
(* Representation of values                                                *)
(*   image   [base |-> b, bytes |-> s]: a byte string whose first b bytes  *)
(*           are zero and whose remaining bytes are s; its length is       *)
(*           b + Len(s).  Offsets are the real 0-based offsets of the      *)
(*           image, so the scan window and the pointer words keep the      *)
(*           values they have in the source.                               *)
(*   text    a sequence of character codes (ASCII).                        *)
(*   enum    [isstr, sv, iv]: a Python value that is either a str (sv) or  *)
(*           an int (iv); isinstance(v, str) is v.isstr.                   *)
(*   dict    a function whose DOMAIN is the set of keys present.           *)
(*   raise   operators that can raise return a record with field err: ""   *)
(*           when they return, the exception otherwise.                    *)
(***************************************************************************)
EXTENDS Integers, Sequences, FiniteSets, TLC

(***************************************************************************)
(* constants.py                                                            *)
(***************************************************************************)
ATTR_SIZE == 150

NUM_STRINGS == 19

NUM_PLAYERS == 16

ATTR_OFFSETS ==
    <<2, 4, 6, 22, 30, 38, 46, 54, 62, 70, 78, 86, 94, 102, 110, 118, 126, 134, 142>>

CATEGORIES == <<"national", "club", "custom">>

\* CHARSET = "\x00ABCDEFGHIJKLMNOPQRSTUVWXYZ -'."; CHARSET[i + 1] is the
\* character of 5-bit value i.
CHARSET == <<0>> \o [i \in 1..26 |-> 64 + i] \o <<32, 45, 39, 46>>

COLOUR_NAMES ==
    <<"grey", "white", "black", "brown", "dark_orange", "orange", "light_grey",
      "dark_grey", "dark_grey_2", "red", "blue", "dark_red", "light_blue",
      "green", "yellow">>

STYLE_NAMES == [i \in 0..3 |-> <<"plain", "sleeves", "vertical", "horizontal">>[i + 1]]

HEAD_NAMES == [i \in 0..2 |-> <<"white_dark", "white_blonde", "black_dark">>[i + 1]]

TACTIC_NAMES ==
    [i \in 0..7 |->
        <<"4-4-2", "5-4-1", "4-5-1", "5-3-2", "3-5-2", "4-3-3", "3-3-4", "6-3-1">>[i + 1]]

ROLE_NAMES == [i \in 0..3 |-> <<"goalkeeper", "defender", "midfielder", "forward">>[i + 1]]

POSITION_NAMES ==
    [i \in (0..10) \cup {15} |->
        IF i = 15 THEN "sub"
        ELSE <<"goalkeeper", "right_back", "left_back", "centre_back", "defender",
               "right_midfielder", "centre_midfielder", "left_midfielder",
               "midfielder", "forward", "second_forward">>[i + 1]]

KNOWN_COUNTRIES ==
    {
      <<69, 78, 71, 76, 65, 78, 68>>,  \* ENGLAND
      <<83, 67, 79, 84, 76, 65, 78, 68>>,  \* SCOTLAND
      <<87, 65, 76, 69, 83>>,  \* WALES
      <<78, 79, 82, 84, 72, 69, 82, 78, 32, 73, 82, 69, 76, 65, 78, 68>>,  \* NORTHERN IRELAND
      <<82, 69, 80, 85, 66, 76, 73, 67, 32, 79, 70, 32, 73, 82, 69, 76, 65, 78, 68>>,  \* REPUBLIC OF IRELAND
      <<70, 82, 65, 78, 67, 69>>,  \* FRANCE
      <<71, 69, 82, 77, 65, 78, 89>>,  \* GERMANY
      <<73, 84, 65, 76, 89>>,  \* ITALY
      <<83, 80, 65, 73, 78>>,  \* SPAIN
      <<72, 79, 76, 76, 65, 78, 68>>,  \* HOLLAND
      <<66, 69, 76, 71, 73, 85, 77>>,  \* BELGIUM
      <<80, 79, 82, 84, 85, 71, 65, 76>>,  \* PORTUGAL
      <<65, 85, 83, 84, 82, 73, 65>>,  \* AUSTRIA
      <<83, 87, 73, 84, 90, 69, 82, 76, 65, 78, 68>>,  \* SWITZERLAND
      <<83, 87, 69, 68, 69, 78>>,  \* SWEDEN
      <<78, 79, 82, 87, 65, 89>>,  \* NORWAY
      <<68, 69, 78, 77, 65, 82, 75>>,  \* DENMARK
      <<70, 73, 78, 76, 65, 78, 68>>,  \* FINLAND
      <<71, 82, 69, 69, 67, 69>>,  \* GREECE
      <<84, 85, 82, 75, 69, 89>>,  \* TURKEY
      <<82, 79, 77, 65, 78, 73, 65>>,  \* ROMANIA
      <<66, 85, 76, 71, 65, 82, 73, 65>>,  \* BULGARIA
      <<72, 85, 78, 71, 65, 82, 89>>,  \* HUNGARY
      <<80, 79, 76, 65, 78, 68>>,  \* POLAND
      <<67, 90, 69, 67, 72, 79, 83, 76, 79, 86, 65, 75, 73, 65>>,  \* CZECHOSLOVAKIA
      <<67, 82, 79, 65, 84, 73, 65>>,  \* CROATIA
      <<83, 76, 79, 86, 69, 78, 73, 65>>,  \* SLOVENIA
      <<82, 85, 83, 83, 73, 65>>,  \* RUSSIA
      <<85, 75, 82, 65, 73, 78, 69>>,  \* UKRAINE
      <<65, 76, 66, 65, 78, 73, 65>>,  \* ALBANIA
      <<67, 89, 80, 82, 85, 83>>,  \* CYPRUS
      <<73, 67, 69, 76, 65, 78, 68>>,  \* ICELAND
      <<73, 83, 82, 65, 69, 76>>,  \* ISRAEL
      <<76, 85, 88, 69, 77, 66, 79, 85, 82, 71>>,  \* LUXEMBOURG
      <<77, 65, 76, 84, 65>>,  \* MALTA
      <<69, 83, 84, 79, 78, 73, 65>>,  \* ESTONIA
      <<76, 65, 84, 86, 73, 65>>,  \* LATVIA
      <<76, 73, 84, 72, 85, 65, 78, 73, 65>>,  \* LITHUANIA
      <<70, 65, 69, 82, 79, 69, 32, 73, 83, 76, 69, 83>>  \* FAEROE ISLES
    }

(***************************************************************************)
(* Python values                                                           *)
(***************************************************************************)
StrV(s) == [isstr |-> TRUE, sv |-> s, iv |-> 0]

IntV(n) == [isstr |-> FALSE, sv |-> "", iv |-> n]

\* NAMES.get(v, v): the name of v when the table has one, v itself otherwise.
NameOr(names, v) == IF v \in DOMAIN names THEN StrV(names[v]) ELSE IntV(v)

\* VALUES = {name: value}: the inverse of a name table.
HasName(names, s) == \E k \in DOMAIN names : names[k] = s

ValueOf(names, s) == CHOOSE k \in DOMAIN names : names[k] = s

COLOUR_TABLE == [i \in 1..15 |-> COLOUR_NAMES[i]]

\* str.upper() on one character code.
Upper(c) == IF c >= 97 /\ c <= 122 THEN c - 32 ELSE c

UpperText(t) == [i \in 1..Len(t) |-> Upper(t[i])]

Min(S) == CHOOSE x \in S : \A y \in S : x <= y

Pow2(n) == 2 ^ n

\* (x >> k) & (2^w - 1)
Bits(x, k, w) == (x \div Pow2(k)) % Pow2(w)

(***************************************************************************)
(* Images                                                                  *)
(***************************************************************************)
RomLen(r) == r.base + Len(r.bytes)

\* r[a] for 0 <= a < len(r)
At(r, a) == IF a < r.base THEN 0 ELSE r.bytes[a - r.base + 1]

\* struct.unpack_from('>H', r, a)
BE16(r, a) == At(r, a) * 256 + At(r, a + 1)

\* struct.unpack_from('>I', r, a)
BE32(r, a) == ((At(r, a) * 256 + At(r, a + 1)) * 256 + At(r, a + 2)) * 256 + At(r, a + 3)

\* struct.pack('>H', v), struct.pack('>I', v)
Pack16(v) == <<(v \div 256) % 256, v % 256>>

Pack32(v) == <<(v \div 16777216) % 256, (v \div 65536) % 256, (v \div 256) % 256, v % 256>>

\* bytes(f): the byte string with the elements of f
Bytes(f) == <<>> \o f

\* r[a:b] with Python's clipping of a slice to the sequence
Slice(r, a, b) ==
    LET hi == IF b > RomLen(r) THEN RomLen(r) ELSE b
    IN  IF hi <= a THEN <<>> ELSE Bytes([i \in 1..(hi - a) |-> At(r, a + i - 1)])

Zeros(n) == Bytes([i \in 1..n |-> 0])

(***************************************************************************)
(* encode.py                                                               *)
(***************************************************************************)
\* CHARSET.index(c) raises ValueError
NotInCharset(c) == \A i \in 1..Len(CHARSET) : CHARSET[i] # c

CharIndex(c) == (CHOOSE i \in 1..Len(CHARSET) : CHARSET[i] = c) - 1

encode_raises(text) == \E i \in 1..Len(text) : NotInCharset(Upper(text[i]))

encode_5bit_string(text) ==
    Bytes([i \in 1..(Len(text) + 1) |->
        IF i <= Len(text) THEN CharIndex(Upper(text[i])) ELSE 0])

\* pack_5bit_values (its first result; total_bits is Len(values) * 5).  The
\* loop shifts each value into bitstream and emits a byte whenever eight bits
\* are pending, then the remaining bits left-aligned: byte j holds bits
\* 8j .. 8j+7 of the concatenation of the values' low five bits, MSB first,
\* zero past the last value.
StreamBit(values, p) ==
    IF p < Len(values) * 5 THEN Bits(values[(p \div 5) + 1] % 32, 4 - (p % 5), 1) ELSE 0

pack_5bit_values(values) ==
    Bytes([j \in 1..((Len(values) * 5 + 7) \div 8) |->
        LET b0 == 8 * (j - 1)
        IN  StreamBit(values, b0) * 128 + StreamBit(values, b0 + 1) * 64
            + StreamBit(values, b0 + 2) * 32 + StreamBit(values, b0 + 3) * 16
            + StreamBit(values, b0 + 4) * 8 + StreamBit(values, b0 + 5) * 4
            + StreamBit(values, b0 + 6) * 2 + StreamBit(values, b0 + 7)])

\* the 19 names of a team, in stream order
TeamNames(team) ==
    <<team.team, team.country, team.coach>> \o
    [j \in 1..Len(team.players) |-> team.players[j].name]

RECURSIVE ConcatAll(_)
ConcatAll(ss) == IF ss = <<>> THEN <<>> ELSE Head(ss) \o ConcatAll(Tail(ss))

encode_team_text(team) ==
    pack_5bit_values(ConcatAll([k \in 1..Len(TeamNames(team)) |->
                                   encode_5bit_string(TeamNames(team)[k])]))

(***************************************************************************)
(* compute_packed_positions: the game's decode loop.  The 32-bit register  *)
(* D5 is the pair <<high word, low word>>.                                 *)
(***************************************************************************)
\* ((d5 << k) | (d5 >> (32 - k))) & 0xFFFFFFFF for 0 < k < 16
Rotl32(d5, k) ==
    <<((d5[1] * Pow2(k)) % 65536) + (d5[2] \div Pow2(16 - k)),
      ((d5[2] * Pow2(k)) % 65536) + (d5[1] \div Pow2(16 - k))>>

\* block[a] of (block[addr:] + bytes(4))[:4]: zero past the end of the block
PadAt(block, a) == IF a < RomLen(block) THEN At(block, a) ELSE 0

LoadD5(block, addr) ==
    <<PadAt(block, addr) * 256 + PadAt(block, addr + 1),
      PadAt(block, addr + 2) * 256 + PadAt(block, addr + 3)>>

\* the inner `while True` (lines 74-88): shift characters out of D5 until a
\* terminator or a refill
RECURSIVE shift_loop(_, _, _)
shift_loop(d5, d3, d4) ==
    LET n4 == d4 + 5
        r5 == Rotl32(d5, 5)
        char_val == r5[2] % 32
    IN  IF char_val = 0
        THEN [d3 |-> IF n4 >= 16 THEN d3 + 2 ELSE d3,
              d4 |-> IF n4 >= 16 THEN n4 - 16 ELSE n4, done |-> TRUE]
        ELSE IF n4 >= 16
             THEN [d3 |-> d3 + 2, d4 |-> n4 - 16, done |-> FALSE]
             ELSE shift_loop(r5, d3, n4)

\* the refill without the rotation of lines 71-72
refill_unrotated(block, d3, d4) == shift_loop(LoadD5(block, d3), d3, d4)

\* lines 64-72: D5 loaded from (block[d3:] + bytes(4))[:4] and rotated left by
\* d4, then the inner loop
refill(block, d3, d4) ==
    shift_loop(IF d4 > 0 THEN Rotl32(LoadD5(block, d3), d4) ELSE LoadD5(block, d3),
               d3, d4)

\* the outer `while True` (lines 63-91) from the state r = [d3, d4, done] the
\* inner loop left: one string
RECURSIVE string_loop(_, _)
string_loop(block, r) ==
    IF r.done THEN r ELSE string_loop(block, refill(block, r.d3, r.d4))

\* `for _ in range(19)` (line 60): the position of each string, then the walk
\* over it
RECURSIVE positions_loop(_, _, _)
positions_loop(block, n, r) ==
    IF n = 0 THEN <<>>
    ELSE <<r.d3 * 32 + r.d4>>
         \o positions_loop(block, n - 1,
                           string_loop(block, [d3 |-> r.d3, d4 |-> r.d4, done |-> FALSE]))

compute_packed_positions(text_bytes) ==
    positions_loop([base |-> ATTR_SIZE, bytes |-> text_bytes], NUM_STRINGS,
                   [d3 |-> ATTR_SIZE, d4 |-> 0, done |-> TRUE])

(***************************************************************************)
(* decode.py                                                               *)
(***************************************************************************)
MAX_STRING == 30

\* lines 23-26: the five bits at abs_bit of the 24-bit window read at its byte
char_at(data, abs_bit) ==
    Bits((At(data, abs_bit \div 8) * 256 + At(data, (abs_bit \div 8) + 1)) * 256
             + At(data, (abs_bit \div 8) + 2),
         24 - (abs_bit % 8) - 5, 5)

\* decode_5bit_string: <<decoded text, next bit position>>
RECURSIVE decode_loop(_, _, _, _)
decode_loop(data, byte_offset, bit_pos, result) ==
    LET char_val == char_at(data, byte_offset * 8 + bit_pos)
    IN  IF ((byte_offset * 8 + bit_pos) \div 8) + 2 >= RomLen(data) THEN <<result, bit_pos>>
        ELSE IF char_val = 0 THEN <<result, bit_pos + 5>>
        ELSE IF char_val >= Len(CHARSET) THEN <<result, bit_pos>>
        ELSE IF Len(result) + 1 > MAX_STRING
             THEN <<Append(result, CHARSET[char_val + 1]), bit_pos + 5>>
             ELSE decode_loop(data, byte_offset, bit_pos + 5,
                              Append(result, CHARSET[char_val + 1]))

decode_5bit_string(data, byte_offset, bit_start) ==
    decode_loop(data, byte_offset, bit_start, <<>>)

\* n strings read one after the other from `offset`, each from the bit
\* position the one before returned; strs[k] is <<text, bit position after it>>
RECURSIVE block_strings(_, _, _, _)
block_strings(rom, offset, bit_pos, n) ==
    IF n = 0 THEN <<>>
    ELSE LET d == decode_5bit_string(rom, offset, bit_pos)
         IN  <<d>> \o block_strings(rom, offset, d[2], n - 1)

\* the dict decode_team_block returns, from its 19 strings
team_info(strs) ==
    [team |-> strs[1][1], country |-> strs[2][1], coach |-> strs[3][1],
     players |-> [j \in 1..NUM_PLAYERS |-> strs[3 + j][1]],
     text_bits |-> strs[NUM_STRINGS][2]]

decode_team_block(rom, offset) == team_info(block_strings(rom, offset, 0, NUM_STRINGS))

\* one player's entry of decode_player_attrs, from the two bytes of the record
player_attrs(pos_byte, app_byte) ==
    [number |-> Bits(pos_byte, 0, 4) + 1,
     position |-> NameOr(POSITION_NAMES, Bits(pos_byte, 4, 4)),
     role |-> NameOr(ROLE_NAMES, Bits(app_byte, 2, 2)),
     head |-> NameOr(HEAD_NAMES, Bits(app_byte, 0, 2)),
     star |-> Bits(app_byte, 4, 1) = 1]

decode_player_attrs(rom, block_offset) ==
    [i \in 1..NUM_PLAYERS |->
        player_attrs(At(rom, block_offset + 22 + (i - 1) * 8 + 2),
                     At(rom, block_offset + 22 + (i - 1) * 8 + 3))]

decode_kit_desc(rom, b) ==
    [style |-> NameOr(STYLE_NAMES, At(rom, b)),
     shirt1 |-> NameOr(COLOUR_TABLE, At(rom, b + 1)),
     shirt2 |-> NameOr(COLOUR_TABLE, At(rom, b + 2)),
     shorts |-> NameOr(COLOUR_TABLE, At(rom, b + 3)),
     socks |-> NameOr(COLOUR_TABLE, At(rom, b + 4))]

decode_kit_attrs(rom, block_offset) ==
    [first |-> decode_kit_desc(rom, block_offset + 8),
     second |-> decode_kit_desc(rom, block_offset + 13)]

\* TACTIC_NAMES.get(tactic_val, str(tactic_val)): always a str
tactic_name(tactic_val) ==
    IF tactic_val \in DOMAIN TACTIC_NAMES
    THEN StrV(TACTIC_NAMES[tactic_val])
    ELSE StrV(ToString(tactic_val))

decode_team_attrs(rom, block_offset) ==
    [tactic |-> tactic_name(At(rom, block_offset + 19)),
     skill |-> Bits(At(rom, block_offset + 21), 3, 3),
     flag |-> Bits(At(rom, block_offset + 21), 0, 1)]

SCAN_START == 131072

SCAN_END == 196608

NameLenOK(name) == Len(name) >= 3 /\ Len(name) <= 25

\* the four tests of one iteration of auto_find_teams (lines 141-155) on the
\* four strings read at the offset
four_accepted(strs) ==
    /\ NameLenOK(strs[1][1])
    /\ strs[2][1] \in KNOWN_COUNTRIES
    /\ NameLenOK(strs[3][1])
    /\ NameLenOK(strs[4][1])

scan_accepts(rom, offset) == four_accepted(block_strings(rom, offset, 0, 4))

\* text_end_byte + 100 of an accepted offset (lines 157-158)
scan_skip(rom, offset) ==
    offset + ((block_strings(rom, offset, 0, 4)[4][2] + 7) \div 8) + 100

\* the offsets the scan appends: the first accepted one from `offset` on, then
\* the scan resumes at its scan_skip
RECURSIVE scan_from(_, _, _)
scan_from(rom, accepted, offset) ==
    IF \A o \in accepted : o < offset THEN <<>>
    ELSE LET first == Min({o \in accepted : o >= offset})
         IN  <<first>> \o scan_from(rom, accepted, scan_skip(rom, first))

\* auto_find_teams.  An offset below rom.base reads a zero first character
\* and one from len(rom) - 2 on reads nothing (line 21): both give an empty
\* name, so only the offsets between them can be accepted.
auto_find_teams(rom, scan_start, scan_end) ==
    scan_from(rom,
              {o \in (IF rom.base > scan_start THEN rom.base ELSE scan_start) ..
                     ((IF RomLen(rom) - 2 < scan_end THEN RomLen(rom) - 2 ELSE scan_end) - 1) :
                   scan_accepts(rom, o)},
              scan_start)

FIND_LIMIT == 196608

NAT_LOW == 65536

NAT_HIGH == 262144

read_table(rom, table_base) ==
    [nat_start |-> BE32(rom, table_base), club_start |-> BE32(rom, table_base + 4),
     cust_start |-> BE32(rom, table_base + 8), nat_end |-> BE32(rom, table_base + 12),
     club_end |-> BE32(rom, table_base + 16), cust_end |-> BE32(rom, table_base + 20),
     table_base |-> table_base]

\* lines 189-193: the test on the six longwords
ptrs_valid(p) ==
    /\ p.nat_start < p.club_start /\ p.club_start < p.cust_start
    /\ p.nat_start < p.nat_end /\ p.nat_end <= p.club_start
    /\ p.club_start < p.club_end /\ p.club_end <= p.cust_start
    /\ p.cust_start < p.cust_end
    /\ NAT_LOW < p.nat_start /\ p.nat_start < NAT_HIGH

\* lines 184-193: the six longwords at table_base lie in the image and form a
\* valid table
table_valid(rom, table_base) ==
    /\ table_base >= 0
    /\ table_base + 24 <= RomLen(rom)
    /\ ptrs_valid(read_table(rom, table_base))

\* every result of rom.find(target, pos, 0x30000), in the order the loop of
\* lines 177-199 meets them.  The target is the non-zero word text_off - 150,
\* so no occurrence lies wholly inside the zero prefix of the image.
find_hits(rom, target) ==
    {h \in (IF rom.base > 3 THEN rom.base - 3 ELSE 0) ..
           ((IF RomLen(rom) < FIND_LIMIT THEN RomLen(rom) ELSE FIND_LIMIT) - 4) :
        /\ At(rom, h) = target[1] /\ At(rom, h + 1) = target[2]
        /\ At(rom, h + 2) = target[3] /\ At(rom, h + 3) = target[4]}

valid_slots(rom, found) == {slot \in 0..2 : table_valid(rom, found - slot * 4)}

\* line 182 without the slot: the table is read at the occurrence itself
table_at_hit(rom, found) == read_table(rom, found)

\* lines 183-197 at the first occurrence that has a valid slot
table_at(rom, found) == read_table(rom, found - 4 * Min(valid_slots(rom, found)))

RECURSIVE table_search(_, _, _)
table_search(rom, text_offsets, k) ==
    IF k > Len(text_offsets)
    THEN [err |-> "RuntimeError: Could not find pointer table in ROM code area"]
    ELSE LET hits == {h \in find_hits(rom, Pack32(text_offsets[k] - 150)) :
                          valid_slots(rom, h) # {}}
         IN  IF hits = {} THEN table_search(rom, text_offsets, k + 1)
             ELSE [err |-> "", ptrs |-> table_at(rom, Min(hits))]

\* find_pointer_table without lines 170-171: an empty list of offsets is
\* searched like any other
find_table_unchecked(rom, text_offsets) == table_search(rom, text_offsets, 1)

\* find_pointer_table from line 169 on
find_table_for(rom, text_offsets) ==
    IF text_offsets = <<>> THEN [err |-> "RuntimeError: No teams found in ROM"]
    ELSE table_search(rom, text_offsets, 1)

find_pointer_table(rom) == find_table_for(rom, auto_find_teams(rom, SCAN_START, SCAN_END))

MIN_BLOCK == 160

MAX_BLOCK == 500

\* chain_walk_region; struct.unpack_from raises when the size word does not
\* lie inside the image
RECURSIVE chain_walk(_, _, _, _)
chain_walk(rom, pos, region_end, blocks) ==
    IF pos >= region_end
    THEN IF pos # region_end THEN [err |-> "RuntimeError: Chain walk ended past region end"]
         ELSE [err |-> "", blocks |-> blocks]
    ELSE IF pos + 2 > RomLen(rom) THEN [err |-> "struct.error"]
    ELSE IF BE16(rom, pos) < MIN_BLOCK \/ BE16(rom, pos) > MAX_BLOCK
         THEN [err |-> "RuntimeError: Bad block size"]
         ELSE chain_walk(rom, pos + BE16(rom, pos), region_end, Append(blocks, pos))

\* the walk without the test of line 217: the blocks are returned wherever
\* the walk ends
RECURSIVE chain_walk_unended(_, _, _, _)
chain_walk_unended(rom, pos, region_end, blocks) ==
    IF pos >= region_end THEN [err |-> "", blocks |-> blocks]
    ELSE IF pos + 2 > RomLen(rom) THEN [err |-> "struct.error"]
    ELSE IF BE16(rom, pos) < MIN_BLOCK \/ BE16(rom, pos) > MAX_BLOCK
         THEN [err |-> "RuntimeError: Bad block size"]
         ELSE chain_walk_unended(rom, pos + BE16(rom, pos), region_end, Append(blocks, pos))

chain_walk_region_unended(rom, region_start, region_end) ==
    chain_walk_unended(rom, region_start, region_end, <<>>)

chain_walk_region(rom, region_start, region_end) ==
    chain_walk(rom, region_start, region_end, <<>>)

\* the highest attribute offset decode_region reads (player 16, byte 3)
LAST_ATTR_READ == 145

\* the tuple decode_region appends for the block at block_offset
decode_block(rom, block_offset) ==
    [info |-> decode_team_block(rom, block_offset + 150),
     kit |-> decode_kit_attrs(rom, block_offset),
     team_attrs |-> decode_team_attrs(rom, block_offset),
     player_attrs |-> decode_player_attrs(rom, block_offset)]

\* decode_region on the result w of its chain walk; rom[i] raises IndexError
\* past the end of the image
decode_blocks(rom, w) ==
    IF w.err # "" THEN [err |-> w.err]
    ELSE IF \E k \in 1..Len(w.blocks) : w.blocks[k] + LAST_ATTR_READ >= RomLen(rom)
         THEN [err |-> "IndexError"]
         ELSE [err |-> "", teams |-> [k \in 1..Len(w.blocks) |-> decode_block(rom, w.blocks[k])]]

decode_region(rom, region_start, region_end) ==
    decode_blocks(rom, chain_walk_region(rom, region_start, region_end))

\* the player dict of decode_rom: 'star' is a key only when the bit is set
player_dict(name, pa) ==
    IF pa.star
    THEN [name |-> name, number |-> pa.number, position |-> pa.position,
          role |-> pa.role, head |-> pa.head, star |-> TRUE]
    ELSE [name |-> name, number |-> pa.number, position |-> pa.position,
          role |-> pa.role, head |-> pa.head]

team_dict(t) ==
    [team |-> t.info.team, country |-> t.info.country, coach |-> t.info.coach,
     tactic |-> t.team_attrs.tactic, skill |-> t.team_attrs.skill,
     flag |-> t.team_attrs.flag, kit |-> t.kit,
     players |-> [j \in 1..NUM_PLAYERS |-> player_dict(t.info.players[j], t.player_attrs[j])]]

\* lines 258-284 of decode_rom: the dicts of the three decoded regions
teams_doc(nat, club, cust) ==
    IF nat.err # "" THEN [err |-> nat.err]
    ELSE IF club.err # "" THEN [err |-> club.err]
    ELSE IF cust.err # "" THEN [err |-> cust.err]
    ELSE [err |-> "",
          doc |-> [national |-> [k \in 1..Len(nat.teams) |-> team_dict(nat.teams[k])],
                   club |-> [k \in 1..Len(club.teams) |-> team_dict(club.teams[k])],
                   custom |-> [k \in 1..Len(cust.teams) |-> team_dict(cust.teams[k])]]]

\* decode_rom after find_pointer_table returned p
decode_regions(rom_bytes, p) ==
    IF p.err # "" THEN [err |-> p.err]
    ELSE teams_doc(decode_region(rom_bytes, p.ptrs.nat_start, p.ptrs.nat_end),
                   decode_region(rom_bytes, p.ptrs.club_start, p.ptrs.club_end),
                   decode_region(rom_bytes, p.ptrs.cust_start, p.ptrs.cust_end))

decode_rom(rom_bytes) == decode_regions(rom_bytes, find_pointer_table(rom_bytes))

(***************************************************************************)
(* update.py                                                               *)
(***************************************************************************)
RECURSIVE FirstErr(_)
FirstErr(errs) ==
    IF errs = <<>> THEN ""
    ELSE IF Head(errs) # "" THEN Head(errs) ELSE FirstErr(Tail(errs))

\* d.get(key, default)
Get(d, key, default) == IF key \in DOMAIN d THEN d[key] ELSE default

\* _resolve_*(val): VALUES[val] for a str (KeyError when unknown), val itself
\* for an int
resolve(names, val) == IF val.isstr THEN ValueOf(names, val.sv) ELSE val.iv

\* attrs[i] = _resolve_*(val): the KeyError of the lookup, or the ValueError
\* of a bytearray store outside range(256)
store_err(names, val) ==
    IF val.isstr /\ ~HasName(names, val.sv) THEN "KeyError"
    ELSE IF resolve(names, val) < 0 \/ resolve(names, val) > 255 THEN "ValueError"
    ELSE ""

KIT_FIELDS == <<"style", "shirt1", "shirt2", "shorts", "socks">>

kit_table(f) == IF f = 1 THEN STYLE_NAMES ELSE COLOUR_TABLE

\* apply_kit_attrs: the first exception of its ten stores
kit_err(kit) ==
    FirstErr([n \in 1..10 |->
        LET prefix == IF n <= 5 THEN "first" ELSE "second"
            f      == IF n <= 5 THEN n ELSE n - 5
        IN  IF prefix \notin DOMAIN kit THEN "KeyError"
            ELSE IF KIT_FIELDS[f] \notin DOMAIN kit[prefix] THEN "KeyError"
            ELSE store_err(kit_table(f), kit[prefix][KIT_FIELDS[f]])])

\* bytes 8 .. 17 as apply_kit_attrs leaves them
kit_byte(kit, off) ==
    LET n == off - 7
        prefix == IF n <= 5 THEN "first" ELSE "second"
        f      == IF n <= 5 THEN n ELSE n - 5
    IN  resolve(kit_table(f), kit[prefix][KIT_FIELDS[f]])

DEFAULT_TACTIC == StrV("4-4-2")

\* apply_team_attrs
team_attrs_err(team) == store_err(TACTIC_NAMES, Get(team, "tactic", DEFAULT_TACTIC))

\* lines 58-62 with the default of line 58 in place of the team's tactic
tactic_byte_default(team) == resolve(TACTIC_NAMES, DEFAULT_TACTIC)

tactic_byte(team) == resolve(TACTIC_NAMES, Get(team, "tactic", DEFAULT_TACTIC))

skill_flag_byte(team) ==
    (Get(team, "skill", 0) % 8) * 8 + (Get(team, "flag", 0) % 2)

\* apply_player_attrs: the first exception over the players, in order
player_err(p, i, attrs_len) ==
    FirstErr(<<IF "position" \notin DOMAIN p THEN "KeyError"
               ELSE IF p.position.isstr /\ ~HasName(POSITION_NAMES, p.position.sv)
                    THEN "KeyError" ELSE "",
               IF "role" \notin DOMAIN p THEN "KeyError"
               ELSE IF p.role.isstr /\ ~HasName(ROLE_NAMES, p.role.sv) THEN "KeyError" ELSE "",
               IF "head" \notin DOMAIN p THEN "KeyError"
               ELSE IF p.head.isstr /\ ~HasName(HEAD_NAMES, p.head.sv) THEN "KeyError" ELSE "",
               IF "number" \notin DOMAIN p THEN "KeyError" ELSE "",
               IF 22 + (i - 1) * 8 + 3 >= attrs_len THEN "IndexError" ELSE "">>)

players_err(players, attrs_len) ==
    FirstErr([i \in 1..Len(players) |-> player_err(players[i], i, attrs_len)])

player_pos_byte(p) ==
    (resolve(POSITION_NAMES, p.position) % 16) * 16 + ((p.number - 1) % 16)

player_app_byte(p) ==
    (IF Get(p, "star", FALSE) THEN 16 ELSE 0)
        + (resolve(ROLE_NAMES, p.role) % 4) * 4 + (resolve(HEAD_NAMES, p.head) % 4)

\* encode_team_text(team): the exception it raises, if any
team_text_err(team) ==
    IF \E k \in {"team", "country", "coach", "players"} : k \notin DOMAIN team THEN "KeyError"
    ELSE IF \E j \in 1..Len(team.players) : "name" \notin DOMAIN team.players[j] THEN "KeyError"
    ELSE IF \E k \in 1..Len(TeamNames(team)) : encode_raises(TeamNames(team)[k])
         THEN "ValueError"
         ELSE ""

\* struct.pack_into('>H', attrs, off, v)
pack16_err(attrs_len, off, v) ==
    IF off + 2 > attrs_len \/ v < 0 \/ v > 65535 THEN "struct.error" ELSE ""

IndexOf(seq, x) == CHOOSE k \in 1..Len(seq) : seq[k] = x

\* the stores of the loop body of build_region (lines 102-112) into attrs, a
\* copy of attr_block: the first exception they raise
build_block_err(team, attr_block, text_bytes, positions) ==
    FirstErr(<<FirstErr([k \in 1..NUM_STRINGS |->
                           pack16_err(Len(attr_block), ATTR_OFFSETS[k], positions[k])]),
               IF "kit" \in DOMAIN team THEN kit_err(team.kit) ELSE "",
               team_attrs_err(team),
               players_err(team.players, Len(attr_block)),
               pack16_err(Len(attr_block), 0,
                          ATTR_SIZE + Len(text_bytes) + (Len(text_bytes) % 2))>>)

\* attrs after every store of the loop body, byte at 0-based offset off
new_attr_byte(team, attr_block, positions, block_size, off) ==
    IF off < 2 THEN Pack16(block_size)[off + 1]
    ELSE IF off < 8 THEN Pack16(positions[(off \div 2)])[(off % 2) + 1]
    ELSE IF off < 18
         THEN IF "kit" \in DOMAIN team THEN kit_byte(team.kit, off) ELSE attr_block[off + 1]
    ELSE IF off < 20 THEN tactic_byte(team)
    ELSE IF off = 20 THEN 0
    ELSE IF off = 21 THEN skill_flag_byte(team)
    ELSE IF (off - 22) % 8 < 2
         THEN Pack16(positions[4 + ((off - 22) \div 8)])[((off - 22) % 8) + 1]
    ELSE IF (off - 22) % 8 = 2 /\ (off - 22) \div 8 < Len(team.players)
         THEN player_pos_byte(team.players[((off - 22) \div 8) + 1])
    ELSE IF (off - 22) % 8 = 3 /\ (off - 22) \div 8 < Len(team.players)
         THEN player_app_byte(team.players[((off - 22) \div 8) + 1])
    ELSE attr_block[off + 1]

\* lines 107-115: bytes(attrs) + text_bytes, and the pad byte of an odd text
block_bytes(team, attr_block, text_bytes, positions) ==
    Bytes([off \in 1..Len(attr_block) |->
              new_attr_byte(team, attr_block, positions,
                            ATTR_SIZE + Len(text_bytes) + (Len(text_bytes) % 2), off - 1)])
    \o text_bytes
    \o (IF Len(text_bytes) % 2 # 0 THEN <<0>> ELSE <<>>)

\* lines 102-115 with the positions computed: the exception, or the block
block_of_positions(team, attr_block, text_bytes, positions) ==
    IF build_block_err(team, attr_block, text_bytes, positions) # ""
    THEN [err |-> build_block_err(team, attr_block, text_bytes, positions), data |-> <<>>]
    ELSE [err |-> "", data |-> block_bytes(team, attr_block, text_bytes, positions)]

\* lines 100-115 with text_bytes encoded
block_of_text(team, attr_block, text_bytes) ==
    block_of_positions(team, attr_block, text_bytes, compute_packed_positions(text_bytes))

\* the block the loop body of build_region makes of team over attr_block
build_block(team, attr_block) ==
    block_of_text(team, attr_block, encode_team_text(team)).data

\* the loop body for team i: [err, data], err the exception it raises ("" when
\* it completes; data is defined only then)
team_block(rom, block_offsets, teams_json, i) ==
    IF team_text_err(teams_json[i]) # ""
    THEN [err |-> team_text_err(teams_json[i]), data |-> <<>>]
    ELSE IF i > Len(block_offsets) THEN [err |-> "IndexError", data |-> <<>>]
    ELSE block_of_text(teams_json[i],
                       Slice(rom, block_offsets[i], block_offsets[i] + ATTR_SIZE),
                       encode_team_text(teams_json[i]))

\* build_region over the results of its loop bodies
region_of(blocks) ==
    IF FirstErr([i \in 1..Len(blocks) |-> blocks[i].err]) # ""
    THEN [err |-> FirstErr([i \in 1..Len(blocks) |-> blocks[i].err])]
    ELSE [err |-> "", data |-> ConcatAll([i \in 1..Len(blocks) |-> blocks[i].data])]

\* build_region (its first result; the change count is discarded by
\* update_rom): [err, data]
build_region(rom, block_offsets, teams_json) ==
    region_of([i \in 1..Len(teams_json) |-> team_block(rom, block_offsets, teams_json, i)])

\* rom[a:b] = data, a slice assignment with Python's clipping
Splice(r, a, b, data) ==
    LET n  == RomLen(r)
        lo == IF a > n THEN n ELSE a
        hi == IF b > n THEN n ELSE (IF b < lo THEN lo ELSE b)
        nb == IF lo < r.base THEN lo ELSE r.base
    IN  [base |-> nb,
         bytes |-> Slice(r, nb, lo) \o data \o Slice(r, hi, n)]

\* struct.pack_into('>I', rom, off, v) on an image that holds the four bytes
PackInto32(r, off, v) == Splice(r, off, off + 4, Pack32(v))

\* lines 163-170: `while scan_pos < len(rom) - 1` steps two bytes at a time
\* from scan_pos and stops at the first non-zero word, which becomes max_end;
\* max_end is left as it was when the loop runs off the end of the image
scan_max_end(rom, scan_pos, max_end) ==
    LET stops == {s \in scan_pos..(RomLen(rom) - 2) :
                    (s - scan_pos) % 2 = 0 /\ BE16(rom, s) # 0}
    IN  IF stops = {} THEN max_end ELSE Min(stops)

OVERFLOW == "RuntimeError: New team data overflows available space"

\* line 181 with >= for >
overflows_at_fit(combined_len, total_available) == combined_len >= total_available

\* line 181
overflows(combined_len, total_available) == combined_len > total_available

\* line 196 without lines 199-201: the rest of the old extent is left as it
\* was
store_combined_unfilled(rom, nat_start, old_total, combined) ==
    Splice(rom, nat_start, nat_start + Len(combined), combined)

\* lines 196-201: the combined data stored at nat_start, the rest of the old
\* extent zeroed when the data is shorter
store_combined(rom, nat_start, old_total, combined) ==
    IF Len(combined) < old_total
    THEN Splice(Splice(rom, nat_start, nat_start + Len(combined), combined),
                nat_start + Len(combined), nat_start + old_total,
                Zeros(old_total - Len(combined)))
    ELSE Splice(rom, nat_start, nat_start + Len(combined), combined)

\* lines 204-210: the six pointers
store_table(rom, tb, nat_start, nat_len, club_len, cust_len) ==
    PackInto32(
      PackInto32(
        PackInto32(
          PackInto32(
            PackInto32(
              PackInto32(rom, tb, nat_start),
              tb + 4, nat_start + nat_len + 2),
            tb + 8, nat_start + nat_len + 2 + club_len + 2),
          tb + 12, nat_start + nat_len),
        tb + 16, nat_start + nat_len + 2 + club_len),
      tb + 20, nat_start + nat_len + 2 + club_len + 2 + cust_len)

\* the successful return of update_rom
updated(out, need, have, max_end, ptrs) ==
    [err |-> "", out |-> out, need |-> need, have |-> have,
     max_end |-> max_end, ptrs |-> ptrs, work |-> out]

\* lines 173-212 with max_end found
write_within(rom, ptrs, nat, club, cust, max_end) ==
    IF overflows(Len(nat) + 2 + Len(club) + 2 + Len(cust), max_end - ptrs.nat_start)
    THEN [err |-> OVERFLOW, need |-> Len(nat) + 2 + Len(club) + 2 + Len(cust),
          have |-> max_end - ptrs.nat_start, max_end |-> max_end, ptrs |-> ptrs,
          work |-> rom]
    ELSE updated(store_table(store_combined(rom, ptrs.nat_start,
                                            ptrs.cust_end - ptrs.nat_start,
                                            nat \o <<0, 0>> \o club \o <<0, 0>> \o cust),
                             ptrs.table_base, ptrs.nat_start,
                             Len(nat), Len(club), Len(cust)),
                 Len(nat) + 2 + Len(club) + 2 + Len(cust), max_end - ptrs.nat_start,
                 max_end, ptrs)

\* update_rom from line 160 on, with the regions built
write_rom(rom, ptrs, nat, club, cust) ==
    write_within(rom, ptrs, nat, club, cust, scan_max_end(rom, ptrs.cust_end, ptrs.cust_end))

\* line 141 without the copy: update_rom works on the caller's object
working_buffer_shared(rom_bytes) == [buf |-> rom_bytes, shared |-> TRUE]

\* line 141, rom = bytearray(rom_bytes): the buffer update_rom works on is a
\* copy, stores to it do not reach the caller's object
working_buffer(rom_bytes) == [buf |-> rom_bytes, shared |-> FALSE]

\* a call that ends in exception e before line 160
failed(rom, e) == [err |-> e, need |-> -1, work |-> rom]

\* lines 156-158 and on, with the national and club regions built
update_custom(rom, ptrs, nat, club, cust) ==
    IF cust.err # "" THEN failed(rom, cust.err)
    ELSE write_rom(rom, ptrs, nat.data, club.data, cust.data)

\* lines 153-155 and on, with the national region built
update_club(rom, teams_json, ptrs, wu, nat, club) ==
    IF club.err # "" THEN failed(rom, club.err)
    ELSE IF "custom" \notin DOMAIN teams_json THEN failed(rom, "KeyError")
    ELSE update_custom(rom, ptrs, nat, club, build_region(rom, wu.blocks, teams_json.custom))

update_national(rom, teams_json, ptrs, wc, wu, nat) ==
    IF nat.err # "" THEN failed(rom, nat.err)
    ELSE IF "club" \notin DOMAIN teams_json THEN failed(rom, "KeyError")
    ELSE update_club(rom, teams_json, ptrs, wu, nat,
                     build_region(rom, wc.blocks, teams_json.club))

\* lines 150-152 and on, with the three regions walked
update_walked(rom, teams_json, ptrs, wn, wc, wu) ==
    IF wn.err # "" THEN failed(rom, wn.err)
    ELSE IF wc.err # "" THEN failed(rom, wc.err)
    ELSE IF wu.err # "" THEN failed(rom, wu.err)
    ELSE IF "national" \notin DOMAIN teams_json THEN failed(rom, "KeyError")
    ELSE update_national(rom, teams_json, ptrs, wc, wu,
                         build_region(rom, wn.blocks, teams_json.national))

\* lines 145-148 and on, with the result p of find_pointer_table
update_located(rom, teams_json, p) ==
    IF p.err # "" THEN failed(rom, p.err)
    ELSE update_walked(rom, teams_json, p.ptrs,
                       chain_walk_region(rom, p.ptrs.nat_start, p.ptrs.nat_end),
                       chain_walk_region(rom, p.ptrs.club_start, p.ptrs.club_end),
                       chain_walk_region(rom, p.ptrs.cust_start, p.ptrs.cust_end))

\* update_rom's steps after line 141 on the working buffer.  `work` is that
\* buffer as it stands when the call ends; a failing call that never built
\* the regions reports need = -1.
update_steps(rom, teams_json) == update_located(rom, teams_json, find_pointer_table(rom))

\* the result r of the steps, with `caller`: the caller's rom_bytes object as
\* the call leaves it
returned(rom_bytes, wb, r) ==
    [f \in DOMAIN r \cup {"caller"} |->
        IF f = "caller" THEN (IF wb.shared THEN r.work ELSE rom_bytes) ELSE r[f]]

update_rom(rom_bytes, teams_json) ==
    returned(rom_bytes, working_buffer(rom_bytes),
             update_steps(working_buffer(rom_bytes).buf, teams_json))

(***************************************************************************)
(* validate.py                                                             *)
(***************************************************************************)
\* validate_string: the list of bad characters is non-empty
has_bad_chars(text) == \E i \in 1..Len(text) : NotInCharset(Upper(text[i]))

\* _check_enum returns an error
check_enum_fails(val, names, max_int) ==
    IF val.isstr THEN ~HasName(names, val.sv)
    ELSE ~(0 <= val.iv /\ val.iv <= max_int)

Keep(cond, e) == IF cond THEN <<e>> ELSE <<>>

kit_errors(kit, cat, i) ==
    ConcatAll([n \in 1..10 |->
        LET prefix == IF n <= 5 THEN "first" ELSE "second"
            f      == IF n <= 5 THEN n ELSE n - 5
            k      == Get(kit, prefix, <<>>)
            val    == Get(k, KIT_FIELDS[f], IF f = 1 THEN StrV("plain") ELSE StrV("white"))
        IN  Keep(check_enum_fails(val, kit_table(f), IF f = 1 THEN 3 ELSE 15),
                 <<"enum", cat, i, prefix, KIT_FIELDS[f]>>)])

player_errors(p, cat, i, j) ==
    Keep(has_bad_chars(Get(p, "name", <<>>)), <<"chars", cat, i, "player", j>>)
    \o Keep(~(1 <= Get(p, "number", 1) /\ Get(p, "number", 1) <= 16),
            <<"range", cat, i, "number", j>>)
    \o Keep(check_enum_fails(Get(p, "position", StrV("goalkeeper")), POSITION_NAMES, 15),
            <<"enum", cat, i, "position", j>>)
    \o Keep(check_enum_fails(Get(p, "role", StrV("goalkeeper")), ROLE_NAMES, 3),
            <<"enum", cat, i, "role", j>>)
    \o Keep(check_enum_fails(Get(p, "head", StrV("white_dark")), HEAD_NAMES, 2),
            <<"enum", cat, i, "head", j>>)

\* lines 65-121: the errors of one team
team_errors(team, cat, i) ==
    LET players == Get(team, "players", <<>>)
    IN  Keep(Len(players) # NUM_PLAYERS, <<"players", cat, i>>)
        \o ConcatAll([l \in 1..3 |->
              LET label == <<"team", "country", "coach">>[l]
              IN  Keep(has_bad_chars(Get(team, label, <<>>)), <<"chars", cat, i, label>>)])
        \o Keep(check_enum_fails(Get(team, "tactic", DEFAULT_TACTIC), TACTIC_NAMES, 7),
                <<"enum", cat, i, "tactic">>)
        \o Keep(~(0 <= Get(team, "skill", 0) /\ Get(team, "skill", 0) <= 7),
                <<"range", cat, i, "skill">>)
        \o Keep(Get(team, "flag", 0) \notin {0, 1}, <<"range", cat, i, "flag">>)
        \o (IF "kit" \in DOMAIN team THEN kit_errors(team.kit, cat, i) ELSE <<>>)
        \o ConcatAll([j \in 1..Len(players) |-> player_errors(players[j], cat, i, j)])

\* lines 122-143: the formation warnings of one team
slot_of(p) ==
    LET pos == Get(p, "position", StrV("goalkeeper"))
    IN  IF pos.isstr
        THEN (IF HasName(POSITION_NAMES, pos.sv) THEN ValueOf(POSITION_NAMES, pos.sv) ELSE -1)
        ELSE pos.iv

\* lines 142-143 with < for !=: a team with too many substitutes passes
team_warnings_few_subs(team, cat, i) ==
    LET players  == Get(team, "players", <<>>)
        starters == {j \in 1..Len(players) : slot_of(players[j]) # 15}
        subs     == {j \in 1..Len(players) : slot_of(players[j]) = 15}
    IN  Keep(~(/\ Cardinality(starters) = 11
               /\ \A v \in 0..10 : \E j \in starters : slot_of(players[j]) = v),
             <<"formation", cat, i>>)
        \o Keep(Cardinality(subs) < 5, <<"subs", cat, i>>)

team_warnings(team, cat, i) ==
    LET players  == Get(team, "players", <<>>)
        starters == {j \in 1..Len(players) : slot_of(players[j]) # 15}
        subs     == {j \in 1..Len(players) : slot_of(players[j]) = 15}
    IN  Keep(~(/\ Cardinality(starters) = 11
               /\ \A v \in 0..10 : \E j \in starters : slot_of(players[j]) = v),
             <<"formation", cat, i>>)
        \o Keep(Cardinality(subs) # 5, <<"subs", cat, i>>)

\* lines 58-62 and the loop body for one category
region_messages(blocks, json_teams, cat) ==
    IF Len(json_teams) # Len(blocks)
    THEN [errors |-> <<<<"count", cat, Len(blocks), Len(json_teams)>>>>, warnings |-> <<>>]
    ELSE [errors |-> ConcatAll([i \in 1..Len(json_teams) |-> team_errors(json_teams[i], cat, i)]),
          warnings |-> ConcatAll([i \in 1..Len(json_teams) |->
                                     team_warnings(json_teams[i], cat, i)])]

\* the lists validate_teams returns, from those of the three categories
messages(mn, mc, mu) ==
    [err |-> "",
     errors |-> mn.errors \o mc.errors \o mu.errors,
     warnings |-> mn.warnings \o mc.warnings \o mu.warnings]

\* validate_teams with the three regions walked
validate_walked(teams_json, wn, wc, wu) ==
    IF wn.err # "" THEN [err |-> wn.err]
    ELSE IF wc.err # "" THEN [err |-> wc.err]
    ELSE IF wu.err # "" THEN [err |-> wu.err]
    ELSE messages(region_messages(wn.blocks, teams_json.national, "national"),
                  region_messages(wc.blocks, teams_json.club, "club"),
                  region_messages(wu.blocks, teams_json.custom, "custom"))

\* validate_teams with the result p of find_pointer_table
validate_located(rom_bytes, teams_json, p) ==
    IF p.err # "" THEN [err |-> p.err]
    ELSE validate_walked(teams_json,
                         chain_walk_region(rom_bytes, p.ptrs.nat_start, p.ptrs.nat_end),
                         chain_walk_region(rom_bytes, p.ptrs.club_start, p.ptrs.club_end),
                         chain_walk_region(rom_bytes, p.ptrs.cust_start, p.ptrs.cust_end))

\* validate_teams: err is the exception it raises ("" when it returns)
validate_teams(rom_bytes, teams_json) ==
    IF \E c \in {"national", "club", "custom"} : c \notin DOMAIN teams_json
    THEN [err |-> "", errors |-> <<<<"keys">>>>, warnings |-> <<>>]
    ELSE validate_located(rom_bytes, teams_json, find_pointer_table(rom_bytes))

(***************************************************************************)
(* Inputs: cartridge images and documents                                  *)
(***************************************************************************)
\* A ... A, n characters
Letters(n) == [i \in 1..n |-> 65]

T_AB == <<65, 66>>

T_GHI == <<71, 72, 73>>

T_JKL == <<74, 75, 76>>

T_BOB == <<66, 79, 66>>

T_PLA == <<80, 76, 65>>

T_SPAIN == <<83, 80, 65, 73, 78>>

T_XX == <<88, 88>>

T_ITALY == <<73, 84, 65, 76, 89>>

T_ALBION == <<65, 76, 66, 73, 79, 78>>

T_albion == <<97, 108, 98, 105, 111, 110>>

T_TILDE == <<65, 126>>

\* "A\x00B"
T_NUL == <<65, 0, 66>>

PlainKit ==
    [style |-> StrV("plain"), shirt1 |-> StrV("white"), shirt2 |-> StrV("red"),
     shorts |-> StrV("blue"), socks |-> StrV("white")]

\* a team document: eleven starters in slots 0..10 and five substitutes
TeamDoc(name, country, coach, player1) ==
    [team |-> name, country |-> country, coach |-> coach,
     tactic |-> StrV("4-4-2"), skill |-> 2, flag |-> 1,
     kit |-> [first |-> PlainKit, second |-> PlainKit],
     players |-> [j \in 1..NUM_PLAYERS |->
        [name |-> IF j = 1 THEN player1 ELSE <<>>, number |-> j,
         position |-> NameOr(POSITION_NAMES, IF j <= 11 THEN j - 1 ELSE 15),
         role |-> StrV(ROLE_NAMES[IF j = 1 THEN 0 ELSE 1 + (j % 3)]),
         head |-> StrV(HEAD_NAMES[j % 3])]]]

NatTeam == TeamDoc(T_AB, T_XX, <<>>, <<>>)

ClubTeam == TeamDoc(T_GHI, T_XX, T_BOB, <<>>)

CustTeam == TeamDoc(T_JKL, T_SPAIN, T_BOB, T_PLA)

\* a block as the cartridge stores it: the attribute section, the packed
\* text and the pad byte
Block(team) == build_block(team, Zeros(ATTR_SIZE))

\* An image laid out like the published editions: the pointer table in the
\* code area, then the three regions `gap` zero bytes apart, `slack` zero
\* bytes and the bytes `after`.  The text of the first custom block starts
\* `shift` bytes into the scan window.
Image(nat, club, cust, gap, shift, slack, after) ==
    LET cust_start == SCAN_START + shift - ATTR_SIZE
        club_start == cust_start - gap - Len(club)
        nat_start  == club_start - gap - Len(nat)
        table_base == nat_start - 32
    IN  [base |-> table_base - 8,
         bytes |-> Zeros(8)
                   \o Pack32(nat_start) \o Pack32(club_start) \o Pack32(cust_start)
                   \o Pack32(nat_start + Len(nat)) \o Pack32(club_start + Len(club))
                   \o Pack32(cust_start + Len(cust))
                   \o Zeros(8) \o nat \o Zeros(gap) \o club \o Zeros(gap) \o cust
                   \o Zeros(slack) \o after]

\* rom with the byte at offset a replaced
Poke(r, a, v) == Splice(r, a, a + 1, <<v>>)

BlockOf(r, cat) ==
    BE32(r, r.base + 8 + (CHOOSE k \in 0..2 : CATEGORIES[k + 1] = cat) * 4)

Slack == 372

AfterBytes == <<0, 255, 255, 255>>

\* the edition image, `slack` zero bytes and `after` behind the custom region
Edition(slack, after) ==
    Image(Block(NatTeam), Block(ClubTeam), Block(CustTeam), 2, 0, slack, after)

\* room for longer names after the custom region
RomA == Edition(Slack, AfterBytes)

\* where the pointer table of the model's images lies
EditionTable == RomA.base + 8

\* no free space after the custom region
RomB == Edition(0, AfterBytes)

\* r with attribute bits the documents do not carry: byte 21 bits 1, 2, 6, 7
\* of the club block, its byte 18 different from byte 19, appearance bits 5-7
\* of the first national player
WithSpareBits(r) ==
    Poke(Poke(Poke(r, BlockOf(r, "club") + 21, 215),
              BlockOf(r, "club") + 18, 3),
         BlockOf(r, "national") + 22 + 3, 229)

RomC == WithSpareBits(Edition(Slack, AfterBytes))

\* r with a tactic byte outside 0..7 in the club block
WithTactic(r, v) == Poke(Poke(r, BlockOf(r, "club") + 18, v), BlockOf(r, "club") + 19, v)

RomD == WithTactic(Edition(Slack, AfterBytes), 9)

\* r without its last n bytes
Truncated(r, n) == [base |-> r.base, bytes |-> SubSeq(r.bytes, 1, Len(r.bytes) - n)]

\* an image that ends inside the text of its last block
RomE == Truncated(Edition(0, <<>>), 6)

\* zero bytes up to the end of the image
RomF == Edition(8, <<>>)

\* an edition with a second custom block, cut inside the attribute section of
\* that block, after the last attribute byte decode_region reads
RomG ==
    Truncated(Image(Block(NatTeam), Block(ClubTeam), Block(CustTeam) \o Block(ClubTeam),
                    2, 0, 0, <<>>),
              Len(Block(ClubTeam)) - (LAST_ATTR_READ + 3))

\* the first n bytes of r
CutAt(r, n) ==
    IF n <= r.base THEN [base |-> n, bytes |-> <<>>]
    ELSE [base |-> r.base, bytes |-> SubSeq(r.bytes, 1, n - r.base)]

\* images that end before any text of the scan window can be read: at the
\* start of the window (the table and the national and club blocks are
\* there), two bytes into it, at 100000 bytes, and the empty image
RomH == CutAt(Edition(0, <<>>), SCAN_START)

RomI == CutAt(Edition(0, <<>>), SCAN_START + 2)

RomJ == CutAt(Edition(0, <<>>), 100000)

RomK == CutAt(Edition(0, <<>>), 0)

\* r with the size word v in the first block of category cat
WithSize(r, cat, v) == Splice(r, BlockOf(r, cat), BlockOf(r, cat) + 2, Pack16(v))

\* a club block with a size word below the least block size
RomL == WithSize(Edition(0, <<>>), "club", MIN_BLOCK - 2)

\* a national block with a size word above the greatest block size
RomM == WithSize(Edition(0, <<>>), "national", MAX_BLOCK + 2)

\* r with the end pointer of the club region two bytes before the end of its
\* block
WithShortRegion(r) == PackInto32(r, r.base + 8 + 16, BE32(r, r.base + 8 + 16) - 2)

RomN == WithShortRegion(Edition(0, <<>>))

\* r with the end pointer of the national region past the start of the club
\* region: the six longwords are no valid table
WithLongRegion(r) == PackInto32(r, r.base + 8 + 12, BE32(r, r.base + 8 + 4) + 2)

RomO == WithLongRegion(Edition(0, <<>>))

\* a second table after the free space, valid as well: the table of the
\* edition with nat_start two bytes later
Decoy == Pack32(BE32(RomA, EditionTable) + 2) \o Slice(RomA, EditionTable + 4, EditionTable + 24)

T_PLAY == <<80, 76, 65, 89>>

\* the custom team with a name for its last player: the text of its block
\* ends in a byte that is not zero
CustTeamLast == [CustTeam EXCEPT !.players[NUM_PLAYERS].name = T_PLAY]

RomP ==
    Image(Block(NatTeam), Block(ClubTeam), Block(CustTeamLast), 2, 0, Slack,
          AfterBytes \o Decoy)

\* r with the first 5-bit value of the text of the club block set to 31, a
\* value no character has
WithCorruptText(r) ==
    Poke(r, BlockOf(r, "club") + ATTR_SIZE,
         (Len(CHARSET) * 8) + (At(r, BlockOf(r, "club") + ATTR_SIZE) % 8))

RomQ == WithCorruptText(Edition(Slack, AfterBytes))

InitRoms == {RomA, RomB, RomC, RomD, RomE, RomF, RomG, RomH, RomI, RomJ, RomK,
             RomL, RomM, RomN, RomO, RomP, RomQ}

(***************************************************************************)
(* Edits a caller makes to a decoded document                              *)
(***************************************************************************)
SetName(team, field, text) ==
    IF field = "player" THEN [team EXCEPT !.players[1].name = text]
    ELSE [team EXCEPT ![field] = text]

AllNames(team, text) ==
    [team EXCEPT !.team = text, !.country = text, !.coach = text,
                 !.players = [j \in 1..Len(team.players) |->
                                 [team.players[j] EXCEPT !.name = text]]]

\* integer forms of the enums, other in-range attribute values, a star
SetAttrs(team) ==
    [team EXCEPT !.tactic = IntV(3), !.skill = 5, !.flag = 0,
                 !.kit.first.shirt1 = IntV(10), !.kit.second.style = IntV(2),
                 !.players[2] = [name |-> team.players[2].name, number |-> 16,
                                 position |-> IntV(15), role |-> IntV(3),
                                 head |-> StrV("black_dark"), star |-> TRUE]]

\* del d[key]
Without(d, key) == [k \in DOMAIN d \ {key} |-> d[k]]

\* the team without its tactic, or without the role of its first player
Unset(team, field) ==
    IF field = "tactic" THEN Without(team, "tactic")
    ELSE [team EXCEPT !.players[1] = Without(team.players[1], field)]

Edits ==
    {[kind |-> "name", cat |-> "national", field |-> "team", text |-> T_ALBION],
     [kind |-> "name", cat |-> "custom", field |-> "team", text |-> T_albion],
     [kind |-> "name", cat |-> "custom", field |-> "country", text |-> T_ITALY],
     [kind |-> "name", cat |-> "club", field |-> "coach", text |-> Letters(31)],
     [kind |-> "name", cat |-> "club", field |-> "player", text |-> T_TILDE],
     [kind |-> "name", cat |-> "club", field |-> "team", text |-> T_NUL],
     [kind |-> "name", cat |-> "club", field |-> "team", text |-> <<>>],
     [kind |-> "colour", cat |-> "custom", field |-> "", text |-> <<>>],
     [kind |-> "unset", cat |-> "club", field |-> "tactic", text |-> <<>>],
     [kind |-> "unset", cat |-> "club", field |-> "role", text |-> <<>>],
     [kind |-> "skill", cat |-> "club", field |-> "", text |-> <<>>],
     [kind |-> "slot", cat |-> "custom", field |-> "", text |-> <<>>],
     [kind |-> "allnames", cat |-> "national", field |-> "", text |-> Letters(30)],
     [kind |-> "attrs", cat |-> "club", field |-> "", text |-> <<>>],
     [kind |-> "attrs", cat |-> "custom", field |-> "", text |-> <<>>],
     [kind |-> "drop", cat |-> "national", field |-> "", text |-> <<>>],
     [kind |-> "dup", cat |-> "club", field |-> "", text |-> <<>>]}

ApplyEdit(d, e) ==
    LET teams == d[e.cat]
    IN  IF e.kind = "drop" THEN [d EXCEPT ![e.cat] = SubSeq(teams, 1, Len(teams) - 1)]
        ELSE IF teams = <<>> THEN d
        ELSE IF e.kind = "dup" THEN [d EXCEPT ![e.cat] = Append(teams, teams[1])]
        ELSE IF e.kind = "name"
             THEN [d EXCEPT ![e.cat][1] = SetName(teams[1], e.field, e.text)]
        ELSE IF e.kind = "allnames"
             THEN [d EXCEPT ![e.cat][1] = AllNames(teams[1], e.text)]
        ELSE IF e.kind = "skill" THEN [d EXCEPT ![e.cat][1].skill = 9]
        ELSE IF e.kind = "colour" THEN [d EXCEPT ![e.cat][1].kit.first.shirt2 = IntV(0)]
        ELSE IF e.kind = "unset" THEN [d EXCEPT ![e.cat][1] = Unset(teams[1], e.field)]
        ELSE IF e.kind = "slot"
             THEN [d EXCEPT ![e.cat][1].players[2].position = StrV("goalkeeper")]
        ELSE [d EXCEPT ![e.cat][1] = SetAttrs(teams[1])]

(***************************************************************************)
(* The caller: load an image, decode it, edit the document, validate it,   *)
(* update the image with it and decode the result.                         *)
(***************************************************************************)
VARIABLES
    rom,        \* the caller's image
    doc,        \* the caller's document
    pc,         \* "start", "doc", "failed", "validated", "updated", "redecoded",
                \* "reapplied"
    dec,        \* result of decode_rom(rom)
    log,        \* the edits made to doc since it was decoded
    val,        \* result of validate_teams(rom, doc)
    upd,        \* result of update_rom(rom, doc)
    redec,      \* result of decode_rom on the image update_rom returned
    given,      \* the arguments of the last update_rom call, as they were then
    upd2,       \* a second call: update_rom(upd.out, upd2.doc), its result res
    team,       \* codec: the team whose 19 names are encoded
    text_bytes, \* codec: encode_team_text(team)
    positions,  \* codec: compute_packed_positions(text_bytes)
    strings,    \* codec: the 19 strings decoded at the positions
    cpc         \* codec: "idle", "team", "encoded", "positioned", "unpacked",
                \* "roundtrip"

rom_vars == <<rom, doc, pc, dec, log, val, upd, redec, given, upd2>>

codec_vars == <<team, text_bytes, positions, strings, cpc>>

vars == <<rom, doc, pc, dec, log, val, upd, redec, given, upd2,
          team, text_bytes, positions, strings, cpc>>

MaxEdits == 1

None == [err |-> "none"]

NoDoc == [national |-> <<>>, club |-> <<>>, custom |-> <<>>]

NoImage == [base |-> 0, bytes |-> <<>>]

InitRom(r) ==
    /\ rom = r
    /\ doc = NoDoc
    /\ pc = "start"
    /\ dec = None
    /\ log = <<>>
    /\ val = None
    /\ upd = None
    /\ redec = None
    /\ given = [rom |-> NoImage, doc |-> NoDoc]
    /\ upd2 = None

InitCodec(t, c) ==
    /\ team = t
    /\ text_bytes = <<>>
    /\ positions = <<>>
    /\ strings = <<>>
    /\ cpc = c

Init ==
    /\ \E r \in InitRoms : InitRom(r)
    /\ InitCodec(NatTeam, "idle")

Result(r) == [f \in DOMAIN r \ {"work"} |-> r[f]]

Decode ==
    /\ pc = "start"
    /\ dec' = decode_rom(rom)
    /\ doc' = IF dec'.err = "" THEN dec'.doc ELSE doc
    /\ pc' = IF dec'.err = "" THEN "doc" ELSE "failed"
    /\ UNCHANGED <<rom, log, val, upd, redec, given, upd2>>
    /\ UNCHANGED codec_vars

\* the kinds of edit, in the order a document is worked through
EditKinds ==
    <<"name", "allnames", "colour", "skill", "slot", "attrs", "unset", "drop", "dup">>

KindRank(kind) == CHOOSE i \in 1..Len(EditKinds) : EditKinds[i] = kind

\* edits of one kind are made in any order, the kinds in the order above
InOrder(e) ==
    IF log = <<>> THEN TRUE ELSE KindRank(log[Len(log)].kind) <= KindRank(e.kind)

Edit ==
    /\ pc = "doc"
    /\ Len(log) < MaxEdits
    /\ \E e \in Edits :
          /\ InOrder(e)
          /\ doc' = ApplyEdit(doc, e)
          /\ log' = Append(log, e)
    /\ UNCHANGED <<rom, pc, dec, val, upd, redec, given, upd2>>
    /\ UNCHANGED codec_vars

\* validate_teams is also called on an image decode_rom refused, with the
\* empty document
Validate ==
    /\ pc \in {"doc", "failed"}
    /\ val' = validate_teams(rom, doc)
    /\ pc' = "validated"
    /\ UNCHANGED <<rom, doc, dec, log, upd, redec, given, upd2>>
    /\ UNCHANGED codec_vars

\* upd is the result without the working buffer; rom becomes the caller's
\* object as the call leaves it
Update ==
    /\ pc = "validated"
    /\ upd' = Result(update_rom(rom, doc))
    /\ rom' = upd'.caller
    /\ given' = [rom |-> rom, doc |-> doc]
    /\ pc' = "updated"
    /\ UNCHANGED <<doc, dec, log, val, redec, upd2>>
    /\ UNCHANGED codec_vars

Redecode ==
    /\ pc = "updated"
    /\ upd.err = ""
    /\ redec' = decode_rom(upd.out)
    /\ pc' = "redecoded"
    /\ UNCHANGED <<rom, doc, dec, log, val, upd, given, upd2>>
    /\ UNCHANGED codec_vars

\* the documents a caller has at hand for a second call
SecondDocs == {given.doc} \cup (IF dec.err = "" THEN {dec.doc} ELSE {})

\* a second call of update_rom, on the image the first call returned
Reapply ==
    /\ pc = "updated"
    /\ upd.err = ""
    /\ \E d2 \in SecondDocs :
          upd2' = [doc |-> d2, res |-> Result(update_rom(upd.out, d2))]
    /\ pc' = "reapplied"
    /\ UNCHANGED <<rom, doc, dec, log, val, upd, redec, given>>
    /\ UNCHANGED codec_vars

Next == Decode \/ Edit \/ Validate \/ Update \/ Redecode \/ Reapply

Spec == Init /\ [][Next]_vars

(***************************************************************************)
(* The text codec on its own: the 19 names of a team are encoded, the      *)
(* positions computed, and each string decoded at its position.            *)
(***************************************************************************)
T_A == <<65>>

\* - ' . space Z
T_PUNCT == <<45, 39, 46, 32, 90>>

NamePool == {<<>>, T_A, T_BOB, T_albion, T_PUNCT, Letters(MAX_STRING), Letters(MAX_STRING + 1)}

\* a team named `name` whose first player is `first` and last player `last`
CodecTeam(name, first, last) ==
    [team |-> name, country |-> T_SPAIN, coach |-> <<>>,
     players |-> [j \in 1..NUM_PLAYERS |->
                     [name |-> IF j = 1 THEN first
                               ELSE IF j = NUM_PLAYERS THEN last ELSE <<>>]]]

InitNames ==
    /\ InitRom(NoImage)
    /\ \E name \in NamePool, first \in NamePool, last \in NamePool :
          InitCodec(CodecTeam(name, first, last), "team")

Encode ==
    /\ cpc = "team"
    /\ team_text_err(team) = ""
    /\ text_bytes' = encode_team_text(team)
    /\ cpc' = "encoded"
    /\ UNCHANGED <<team, positions, strings>>
    /\ UNCHANGED rom_vars

Positions ==
    /\ cpc = "encoded"
    /\ positions' = compute_packed_positions(text_bytes)
    /\ cpc' = "positioned"
    /\ UNCHANGED <<team, text_bytes, strings>>
    /\ UNCHANGED rom_vars

\* 150 zero bytes followed by the text
Buffer(t) == [base |-> ATTR_SIZE, bytes |-> t]

Unpack ==
    /\ cpc = "positioned"
    /\ strings' = Bytes([k \in 1..NUM_STRINGS |->
                          decode_5bit_string(Buffer(text_bytes), positions[k] \div 32,
                                             positions[k] % 32)[1]])
    /\ cpc' = "unpacked"
    /\ UNCHANGED <<team, text_bytes, positions>>
    /\ UNCHANGED rom_vars

\* one name on its own: its values and one more zero packed, and the packed
\* bytes, with nothing after them, unpacked from byte 0, bit 0.  strings is
\* then the one result <<text, next bit position>>.
RoundTrip ==
    /\ cpc = "team"
    /\ ~encode_raises(team.team)
    /\ text_bytes' = pack_5bit_values(encode_5bit_string(team.team) \o <<0>>)
    /\ strings' = <<decode_5bit_string([base |-> 0, bytes |-> text_bytes'], 0, 0)>>
    /\ cpc' = "roundtrip"
    /\ UNCHANGED <<team, positions>>
    /\ UNCHANGED rom_vars

NextCodec == Encode \/ Positions \/ Unpack \/ RoundTrip

SpecCodec == InitNames /\ [][NextCodec]_vars

(***************************************************************************)
(* Properties                                                              *)
(***************************************************************************)
\* update_rom has been called on (given.rom, given.doc); upd is its result
Called == pc \in {"updated", "redecoded"}

\* the document passed to update_rom is decode_rom of the image, unedited
Unedited == log = <<>> /\ dec.err = "" /\ given.doc = dec.doc

ImageEq(a, b) ==
    /\ RomLen(a) = RomLen(b)
    /\ \A i \in Min({a.base, b.base})..(RomLen(a) - 1) : At(a, i) = At(b, i)

\* the six-pointer table of r is found and valid and ps are its pointers
WalksOf(r, ps) ==
    <<chain_walk_region(r, ps.nat_start, ps.nat_end),
      chain_walk_region(r, ps.club_start, ps.club_end),
      chain_walk_region(r, ps.cust_start, ps.cust_end)>>

AllWalk(r, ps) == \A k \in 1..3 : WalksOf(r, ps)[k].err = ""

\* an image with the structural invariants of the editions: the table is
\* found, the three regions chain-walk, and the image holds every block whole
Structured(r, p) ==
    /\ p.err = ""
    /\ AllWalk(r, p.ptrs)
    /\ p.ptrs.cust_end <= RomLen(r)

Supported(r) == Structured(r, find_pointer_table(r))

NoErrors == val.err = "" /\ val.errors = <<>>

\* C1 (as stated): after update_rom(R, decode_rom(R)) on an image R with a
\* valid pointer table and three chain-walkable regions, whose decoded
\* document validates without errors, the call has returned an image equal to
\* R byte for byte.
C1_RoundTrip ==
    (Called /\ Unedited /\ NoErrors /\ Supported(given.rom))
        => (upd.err = "" /\ ImageEq(upd.out, given.rom))

\* C2 (as stated): for the text T of a team whose 19 names are over the
\* alphabet and at most 30 characters long, decode_5bit_string on the buffer
\* of 150 zero bytes followed by T, at byte p[k] >> 5 and bit p[k] & 31 of each
\* computed position p[k], returns the k-th name upper-cased.
C2_PositionWords ==
    (cpc = "unpacked" /\ \A k \in 1..NUM_STRINGS : Len(TeamNames(team)[k]) <= MAX_STRING)
        => \A k \in 1..NUM_STRINGS : strings[k] = UpperText(TeamNames(team)[k])

\* enums in canonical name form: the name of an integer that has one
CanonEnum(names, v) == IF v.isstr THEN v ELSE NameOr(names, v.iv)

CanonTactic(v) == IF v.isstr THEN v ELSE tactic_name(v.iv)

CanonKit(k) ==
    [style |-> CanonEnum(STYLE_NAMES, k.style),
     shirt1 |-> CanonEnum(COLOUR_TABLE, k.shirt1),
     shirt2 |-> CanonEnum(COLOUR_TABLE, k.shirt2),
     shorts |-> CanonEnum(COLOUR_TABLE, k.shorts),
     socks |-> CanonEnum(COLOUR_TABLE, k.socks)]

CanonPlayer(q) ==
    player_dict(UpperText(q.name),
                [number |-> q.number,
                 position |-> CanonEnum(POSITION_NAMES, q.position),
                 role |-> CanonEnum(ROLE_NAMES, q.role),
                 head |-> CanonEnum(HEAD_NAMES, q.head),
                 star |-> Get(q, "star", FALSE)])

CanonTeam(t) ==
    [team |-> UpperText(t.team), country |-> UpperText(t.country),
     coach |-> UpperText(t.coach),
     tactic |-> CanonTactic(Get(t, "tactic", DEFAULT_TACTIC)),
     skill |-> t.skill, flag |-> t.flag,
     kit |-> [first |-> CanonKit(t.kit.first), second |-> CanonKit(t.kit.second)],
     players |-> [j \in 1..Len(t.players) |-> CanonPlayer(t.players[j])]]

\* a document as decode_rom would return it: strings upper-cased, enums in
\* canonical name form
Canon(d) ==
    [c \in {"national", "club", "custom"} |->
        [i \in 1..Len(d[c]) |-> CanonTeam(d[c][i])]]

\* every name of every team of d has at most 30 characters
NamesWithin(d) ==
    \A c \in DOMAIN d : \A i \in 1..Len(d[c]) :
        \A k \in 1..Len(TeamNames(d[c][i])) : Len(TeamNames(d[c][i])[k]) <= MAX_STRING

\* C3 (as stated, for names of at most 30 characters): when validate_teams
\* reported no errors on (R, doc) and update_rom(R, doc) returned, decode_rom
\* of the returned image succeeds and equals doc at every team and field,
\* strings upper-cased and enums in canonical name form.
C3_EditRedecode ==
    (pc = "redecoded" /\ NoErrors /\ upd.err = "" /\ NamesWithin(given.doc))
        => (redec.err = "" /\ redec.doc = Canon(given.doc))

\* C4 (as stated): for an image R with a valid pointer table and three
\* chain-walkable regions, update_rom(R, decode_rom(R)) returns and decode_rom
\* of what it returns succeeds and equals decode_rom(R).
C4_DecodeIdempotent ==
    (Called /\ Unedited /\ Supported(given.rom))
        => /\ upd.err = ""
           /\ pc = "redecoded" => (redec.err = "" /\ redec.doc = dec.doc)

\* C5 (as stated): after a successful update_rom(R, doc) the six longwords at
\* the discovered table base of the output satisfy the ordering of a valid
\* table, and nat_start is the nat_start of R.
C5_PointerOrder ==
    (Called /\ upd.err = "")
        => LET t == read_table(upd.out, upd.ptrs.table_base)
           IN  /\ t.nat_start < t.club_start /\ t.club_start < t.cust_start
               /\ t.nat_start < t.nat_end /\ t.nat_end <= t.club_start
               /\ t.club_start < t.club_end /\ t.club_end <= t.cust_start
               /\ t.cust_start < t.cust_end
               /\ t.nat_start = upd.ptrs.nat_start

\* C6 (as stated): after a successful update_rom(R, doc) for which
\* validate_teams reported no errors, chain_walk_region succeeds on each of
\* the three regions of the output, walked from its new start pointer to its
\* new end pointer.
C6_ChainValid ==
    (Called /\ NoErrors /\ upd.err = "")
        => AllWalk(upd.out, read_table(upd.out, upd.ptrs.table_base))

\* the offsets cust_end, cust_end + 2, ... of r at which a whole 16-bit word
\* of the image is non-zero
NonZeroWords(r, cust_end) ==
    {w \in cust_end..(RomLen(r) - 2) : (w - cust_end) % 2 = 0 /\ BE16(r, w) # 0}

\* C7: on an image with a non-zero word at or after the original cust_end,
\* scanning word by word, max_end being the offset of the first such word: a
\* call of update_rom that built its three regions fails with the overflow
\* error exactly when the regions joined by two zero bytes each are longer
\* than max_end - nat_start, a call that did not build them never fails with
\* it, and a call that fails with it returns no image and leaves the caller's
\* image as it was.
C7_Overflow ==
    Called =>
        /\ upd.need < 0 => upd.err # OVERFLOW
        /\ (upd.need >= 0 /\ NonZeroWords(given.rom, upd.ptrs.cust_end) # {})
              => (upd.err = OVERFLOW
                    <=> upd.need > Min(NonZeroWords(given.rom, upd.ptrs.cust_end))
                                       - upd.ptrs.nat_start)
        /\ upd.err = OVERFLOW => ("out" \notin DOMAIN upd /\ ImageEq(rom, given.rom))

\* an update that failed with the overflow error on an image with a non-zero
\* word after its custom region
C7_Witness ==
    /\ Called
    /\ upd.err = OVERFLOW
    /\ NonZeroWords(given.rom, upd.ptrs.cust_end) # {}

\* C8 (as stated): the output of a successful update_rom(R, doc) is as long
\* as R and equal to R at every offset outside [nat_start, max_end) and
\* outside the 24 bytes of the pointer table.
C8_WriteFrame ==
    (Called /\ upd.err = "")
        => /\ RomLen(upd.out) = RomLen(given.rom)
           /\ \A i \in given.rom.base..(RomLen(given.rom) - 1) :
                 \/ (upd.ptrs.nat_start <= i /\ i < upd.max_end)
                 \/ (upd.ptrs.table_base <= i /\ i < upd.ptrs.table_base + 24)
                 \/ At(upd.out, i) = At(given.rom, i)

CountDiffers(r, ps, d) ==
    \E k \in 1..3 : Len(d[CATEGORIES[k]]) # Len(WalksOf(r, ps)[k].blocks)

\* C10 (as stated): on an image R whose table is found and whose regions
\* chain-walk, update_rom(R, doc) fails and returns no image whenever the
\* number of teams of doc for some region differs from the number of blocks of
\* that region of R.
C10_CountFixed ==
    (Called /\ Supported(given.rom)
        /\ CountDiffers(given.rom, find_pointer_table(given.rom).ptrs, given.doc))
        => (upd.err # "" /\ "out" \notin DOMAIN upd)

\* validate_teams has been called on (rom, doc) as they stand; val is its result
Validated == pc \in {"validated", "updated", "redecoded"}

Range(f) == {f[k] : k \in DOMAIN f}

\* C11 (as stated): when validate_teams(R, doc) returns a non-empty error
\* list, update_rom(R, doc) fails and returns no image.
C11_ValidatesFirst ==
    (Called /\ val.err = "" /\ val.errors # <<>>)
        => (upd.err # "" /\ "out" \notin DOMAIN upd)

\* the 30 characters of the alphabet: the characters of 5-bit values 1..30
Alphabet == {CHARSET[v + 1] : v \in 1..30}

OutsideAlphabet(text) == \E k \in 1..Len(text) : Upper(text[k]) \notin Alphabet

\* e names a string of d that holds a character outside the alphabet
HasBadField(d, e) ==
    /\ e[3] <= Len(d[e[2]])
    /\ IF e[4] = "player"
       THEN /\ e[5] <= Len(d[e[2]][e[3]].players)
            /\ OutsideAlphabet(d[e[2]][e[3]].players[e[5]].name)
       ELSE OutsideAlphabet(d[e[2]][e[3]][e[4]])

\* the error entries naming the team and field of each string of d that holds
\* a character outside the alphabet
BadFields(d) ==
    LET cats  == {"national", "club", "custom"}
        teams == 1..(Len(d.national) + Len(d.club) + Len(d.custom))
    IN  {e \in {<<"chars", c, i, label>> :
                    c \in cats, i \in teams, label \in {"team", "country", "coach"}}
               \cup {<<"chars", c, i, "player", j>> :
                        c \in cats, i \in teams, j \in 1..NUM_PLAYERS} :
            HasBadField(d, e)}

\* C12 (as stated): for each string of the document that holds, upper-cased,
\* a character outside the 30-character alphabet, validate_teams returns an
\* error naming its team and field, and update_rom on the document fails and
\* returns no image.
C12_InvalidCharacters ==
    Called =>
        \A e \in BadFields(given.doc) :
            /\ val.err = "" /\ e \in Range(val.errors)
            /\ upd.err # "" /\ "out" \notin DOMAIN upd

\* C13 (as stated): validate_teams returns its two lists and never raises,
\* and on an image decode_rom refuses the returned error list is not empty.
C13_ValidateCollects ==
    Validated => (val.err = "" /\ (dec.err # "" => val.errors # <<>>))

\* C14 (as stated): validate_teams(R, decode_rom(R)) returns an empty error
\* list for every image R decode_rom accepts.
C14_DecodedValidates ==
    (Validated /\ dec.err = "" /\ log = <<>>) => NoErrors

\* the formation slot of a player of a document: the value of its position,
\* -1 for a name that is no position
SlotOf(q) ==
    IF ~q.position.isstr THEN q.position.iv
    ELSE IF \E v \in DOMAIN POSITION_NAMES : POSITION_NAMES[v] = q.position.sv
         THEN CHOOSE v \in DOMAIN POSITION_NAMES : POSITION_NAMES[v] = q.position.sv
         ELSE -1

\* the slots of the players of t outside slot 15 are a permutation of 0..10
StartersCover(t) ==
    /\ \A j \in 1..Len(t.players) : SlotOf(t.players[j]) \in (0..10) \cup {15}
    /\ \A v \in 0..10 :
          Cardinality({j \in 1..Len(t.players) : SlotOf(t.players[j]) = v}) = 1

SubCount(t) == Cardinality({j \in 1..Len(t.players) : SlotOf(t.players[j]) = 15})

\* the teams of category c reach content validation: no count mismatch is
\* reported for c
ReachesContent(c) == \A e \in Range(val.errors) : ~(e[1] = "count" /\ e[2] = c)

OnlyFormationEdits == \A k \in 1..Len(log) : log[k].kind \in {"slot", "attrs"}

\* C15: when validate_teams returns, for each team that reaches content
\* validation the formation-slot warning is present exactly when the slots of
\* its players outside slot 15 are not a permutation of 0..10, and the
\* substitute-count warning exactly when its slot-15 players are not 5; no
\* such entry is in errors, and a document that differs from a decoded one
\* that validates without errors only by formation edits has errors empty.
C15_FormationWarnings ==
    (Validated /\ val.err = "") =>
        /\ \A c \in {"national", "club", "custom"} :
              ReachesContent(c) =>
                 \A i \in 1..Len(doc[c]) :
                    /\ <<"formation", c, i>> \in Range(val.warnings)
                          <=> ~StartersCover(doc[c][i])
                    /\ <<"subs", c, i>> \in Range(val.warnings)
                          <=> SubCount(doc[c][i]) # 5
        /\ \A e \in Range(val.errors) : e[1] \notin {"formation", "subs"}
        /\ (dec.err = "" /\ OnlyFormationEdits
               /\ validate_teams(rom, dec.doc).errors = <<>>)
              => val.errors = <<>>

\* a validated document with a formation warning and no error
C15_Witness ==
    /\ Validated /\ val.err = "" /\ val.errors = <<>>
    /\ \E e \in Range(val.warnings) : e[1] = "formation"
    /\ log # <<>>

\* the image ends before any character of the scan window can be read: its
\* length is at most two bytes past the start of the window
TooShort(r) == RomLen(r) <= SCAN_START + 2

\* C16: decode_rom of an image too short to hold text in the scan window
\* fails with the RuntimeError "No teams found in ROM" of find_pointer_table,
\* not with an IndexError or another exception.
C16_ShortImages ==
    (pc # "start" /\ TooShort(rom)) => dec.err = "RuntimeError: No teams found in ROM"

\* decode_rom has refused an image cut at the start of the scan window, in
\* which the pointer table and the national and club blocks are whole
C16_Witness ==
    /\ pc = "failed" /\ TooShort(rom)
    /\ table_valid(rom, RomA.base + 8)
    /\ dec.err # ""

\* C17 (as stated): for a string s of at most 30 characters of the alphabet,
\* decode_5bit_string at byte 0, bit 0 of pack_5bit_values(encode_5bit_string(s)
\* followed by one zero value), with no byte after the packed ones, returns s
\* and the bit position after the terminator.
C17_BitCodecRoundTrip ==
    (/\ cpc = "roundtrip"
     /\ Len(team.team) <= MAX_STRING
     /\ \A k \in 1..Len(team.team) : team.team[k] \in Alphabet)
        => strings[1] = <<team.team, 5 * Len(team.team) + 5>>

\* the bits of the attribute section at block offset b of image r that no
\* field of the document carries: bits 1, 2, 6, 7 of byte 21 and, in each
\* player record, bits 5-7 of the appearance byte and bytes 4-7
SpareBits(r, b) ==
    <<Bits(At(r, b + 21), 1, 2), Bits(At(r, b + 21), 6, 2),
      [j \in 0..(NUM_PLAYERS - 1) |->
          <<Bits(At(r, b + 22 + 8 * j + 3), 5, 3),
            At(r, b + 22 + 8 * j + 4), At(r, b + 22 + 8 * j + 5),
            At(r, b + 22 + 8 * j + 6), At(r, b + 22 + 8 * j + 7)>>]>>

\* block i of category k has the same spare bits in the walks wo of image o
\* and wr of image r
SameSpareBits(o, wo, r, wr) ==
    \A k \in 1..3 :
        \A i \in 1..Len(wr[k].blocks) :
            i <= Len(wo[k].blocks)
                => SpareBits(o, wo[k].blocks[i]) = SpareBits(r, wr[k].blocks[i])

\* C18 (as stated): in every block of the image a successful update_rom
\* returns, each bit of the attribute section outside the fields of the
\* document equals that bit of the same block of the source image.
C18_SpareBitsPreserved ==
    (/\ Called /\ upd.err = ""
     /\ AllWalk(given.rom, upd.ptrs)
     /\ AllWalk(upd.out, read_table(upd.out, upd.ptrs.table_base)))
        => SameSpareBits(upd.out, WalksOf(upd.out, read_table(upd.out, upd.ptrs.table_base)),
                         given.rom, WalksOf(given.rom, upd.ptrs))

\* the blocks update_rom built for category k of the document it was given
BuiltBlocks(k) ==
    [i \in 1..Len(given.doc[CATEGORIES[k]]) |->
        team_block(given.rom, WalksOf(given.rom, upd.ptrs)[k].blocks,
                   given.doc[CATEGORIES[k]], i).data]

\* the size word a block starts with
SizeWord(blk) == blk[1] * 256 + blk[2]

RECURSIVE SumSizeWords(_)
SumSizeWords(blks) ==
    IF blks = <<>> THEN 0 ELSE SizeWord(Head(blks)) + SumSizeWords(Tail(blks))

\* blk is 150 attribute bytes, the packed text T, and one zero byte exactly
\* when T has odd length; its size word is its even length
WellLaid(blk, T) ==
    /\ Len(blk) = ATTR_SIZE + Len(T) + (Len(T) % 2)
    /\ Len(blk) >= 2 /\ SizeWord(blk) = Len(blk)
    /\ SizeWord(blk) % 2 = 0
    /\ Len(blk) >= ATTR_SIZE + Len(T) => SubSeq(blk, ATTR_SIZE + 1, ATTR_SIZE + Len(T)) = T
    /\ (Len(T) % 2 = 1 /\ Len(blk) > ATTR_SIZE + Len(T)) => blk[ATTR_SIZE + Len(T) + 1] = 0

\* C19 (as stated): every block a successful update_rom emits is its 150-byte
\* attribute section, the packed text T of its team and one zero byte exactly
\* when len(T) is odd; its size word is 150 + len(T) + (len(T) mod 2), is even
\* and is the number of bytes emitted; a region is as long as the sum of the
\* size words of its blocks.
C19_BlockLayout ==
    (Called /\ upd.err = "")
        => \A k \in 1..3 :
              /\ \A i \in 1..Len(BuiltBlocks(k)) :
                    WellLaid(BuiltBlocks(k)[i], encode_team_text(given.doc[CATEGORIES[k]][i]))
              /\ Len(build_region(given.rom, WalksOf(given.rom, upd.ptrs)[k].blocks,
                                  given.doc[CATEGORIES[k]]).data)
                    = SumSizeWords(BuiltBlocks(k))

\* the bits the strings before the k-th of names take: five for each
\* character and five for each terminator
RECURSIVE BitsBefore(_, _)
BitsBefore(names, k) ==
    IF k <= 1 THEN 0 ELSE BitsBefore(names, k - 1) + 5 * (Len(names[k - 1]) + 1)

\* ((150 + 2 * (b div 16)) << 5) | (b mod 16)
CountedPosition(b) == (ATTR_SIZE + 2 * (b \div 16)) * 32 + (b % 16)

\* C20: the positions compute_packed_positions gives for the text of nineteen
\* strings are those of plain bit counting, position k being
\* ((150 + 2 * (b div 16)) << 5) | (b mod 16) for the b bits of the strings
\* before it; D3 is even, D4 is in 0..15, the first position is 0x12C0 and
\* the positions strictly increase.
C20_BitCounting ==
    cpc \in {"positioned", "unpacked"}
        => /\ Len(positions) = NUM_STRINGS
           /\ \A k \in 1..NUM_STRINGS :
                 /\ positions[k] = CountedPosition(BitsBefore(TeamNames(team), k))
                 /\ (positions[k] \div 32) % 2 = 0
                 /\ positions[k] % 32 \in 0..15
                 /\ ((positions[k] \div 32) - ATTR_SIZE) * 8 + (positions[k] % 32)
                       = BitsBefore(TeamNames(team), k)
           /\ positions[1] = 4800
           /\ \A k \in 1..(NUM_STRINGS - 1) : positions[k] < positions[k + 1]

\* positions computed for a team whose name takes several refills and ends
\* inside a word
C20_Witness ==
    /\ cpc = "positioned"
    /\ Len(team.team) >= MAX_STRING
    /\ positions[2] % 32 # 0
    /\ positions[NUM_STRINGS] > positions[2]

\* the size word at p, 0 when the image does not hold it
SizeAt(r, p) == IF p >= 0 /\ p + 2 <= RomLen(r) THEN BE16(r, p) ELSE 0

\* the offset n size words after start
RECURSIVE Follow(_, _, _)
Follow(r, start, n) ==
    IF n = 0 THEN start
    ELSE Follow(r, start, n - 1) + SizeAt(r, Follow(r, start, n - 1))

\* the walk from start stops after n blocks: at or past the end of the
\* region, or at a size word outside 160..500
StopsAfter(r, start, end, n) ==
    \/ Follow(r, start, n) >= end
    \/ SizeAt(r, Follow(r, start, n)) < 160
    \/ SizeAt(r, Follow(r, start, n)) > 500

\* the number of blocks before the walk stops; every block before it adds at
\* least 160 bytes, so the walk stops within (end - start) div 160 + 1 blocks
WalkLength(r, start, end) ==
    Min({n \in 0..(IF end > start THEN (end - start) \div 160 + 1 ELSE 0) :
            StopsAfter(r, start, end, n)})

\* w is what the claim says of the walk of [start, end) that stops after n
\* blocks at offset p
WalkAsClaimed(r, start, end, w, n, p) ==
    /\ w.err # "" => "blocks" \notin DOMAIN w
    /\ p = end <=> w.err = ""
    /\ w.err = "" => w.blocks = [i \in 1..n |-> Follow(r, start, i - 1)]
    /\ p > end => w.err = "RuntimeError: Chain walk ended past region end"
    /\ (p < end /\ p + 2 <= RomLen(r)) => w.err = "RuntimeError: Bad block size"
    /\ (p < end /\ p + 2 > RomLen(r)) => w.err = "struct.error"

WalkClaim(r, start, end) ==
    WalkAsClaimed(r, start, end, chain_walk_region(r, start, end),
                  WalkLength(r, start, end),
                  Follow(r, start, WalkLength(r, start, end)))

\* decode_rom has just returned or raised
JustDecoded == pc \in {"doc", "failed"} /\ log = <<>>

\* the three regions the table of image r names, when r holds the table
TableWalksClaim(r) ==
    EditionTable + 24 <= RomLen(r)
        => /\ WalkClaim(r, BE32(r, EditionTable), BE32(r, EditionTable + 12))
           /\ WalkClaim(r, BE32(r, EditionTable + 4), BE32(r, EditionTable + 16))
           /\ WalkClaim(r, BE32(r, EditionTable + 8), BE32(r, EditionTable + 20))

\* C21: chain_walk_region(rom, start, end) returns the offsets b_0 = start,
\* b_{i+1} = b_i + size(b_i) exactly when every size word it reads is in
\* 160..500 and the last block ends at end; it fails with the bad-block-size
\* error at the first size outside 160..500, with the chain error when the
\* walk steps past end, and never returns a partial list.  Checked on the
\* three regions of the caller's image and of every image update_rom returns.
C21_ChainWalk ==
    /\ JustDecoded => TableWalksClaim(rom)
    /\ (pc = "updated" /\ upd.err = "") => TableWalksClaim(upd.out)

\* decode_rom failed at a size word below 160 in the club region, after the
\* national region was walked to its end
C21_Witness ==
    /\ pc = "failed"
    /\ dec.err = "RuntimeError: Bad block size"
    /\ chain_walk_region(rom, BE32(rom, EditionTable), BE32(rom, EditionTable + 12)).err = ""
    /\ SizeAt(rom, BE32(rom, EditionTable + 4)) < 160

\* the six longwords at tb are ordered as a pointer table
SixOrdered(r, tb) ==
    LET nat_s == BE32(r, tb)      club_s == BE32(r, tb + 4)   cust_s == BE32(r, tb + 8)
        nat_e == BE32(r, tb + 12) club_e == BE32(r, tb + 16)  cust_e == BE32(r, tb + 20)
    IN  /\ nat_s < club_s /\ club_s < cust_s
        /\ nat_s < nat_e /\ nat_e <= club_s
        /\ club_s < club_e /\ club_e <= cust_s
        /\ cust_s < cust_e
        /\ 65536 < nat_s /\ nat_s < 262144

\* the offsets at which a longword of the first 0x30000 bytes of r can start
\* (every longword below r.base - 3 is zero)
LongwordOffsets(r) ==
    (IF r.base > 3 THEN r.base - 3 ELSE 0) ..
        ((IF RomLen(r) < 196608 THEN RomLen(r) ELSE 196608) - 4)

\* candidate k, the occurrence at h of its block start and slot s yield a
\* table: the longword at h is T - 150, it is start pointer s of the six
\* longwords at h - 4s, which lie in the image and are ordered
Yields(r, cands, k, h, s) ==
    /\ \A b \in 0..3 : At(r, h + b) = ((cands[k] - 150) \div Pow2(8 * (3 - b))) % 256
    /\ h - 4 * s >= 0
    /\ h - 4 * s + 24 <= RomLen(r)
    /\ SixOrdered(r, h - 4 * s)

Earlier(k1, h1, s1, k2, h2, s2) ==
    \/ k1 < k2
    \/ k1 = k2 /\ h1 < h2
    \/ k1 = k2 /\ h1 = h2 /\ s1 <= s2

\* p is find_pointer_table(r) as the claim has it, for the offsets cands the
\* scan accepted
LocatorClaim(r, cands, p) ==
    IF p.err = ""
    THEN \E k \in 1..Len(cands), h \in LongwordOffsets(r), s \in 0..2 :
            /\ Yields(r, cands, k, h, s)
            /\ p.ptrs.table_base = h - 4 * s
            /\ p.ptrs = read_table(r, h - 4 * s)
            /\ \A k2 \in 1..Len(cands), h2 \in LongwordOffsets(r), s2 \in 0..2 :
                  Yields(r, cands, k2, h2, s2) => Earlier(k, h, s, k2, h2, s2)
    ELSE /\ "ptrs" \notin DOMAIN p
         /\ \A k \in 1..Len(cands), h \in LongwordOffsets(r), s \in 0..2 :
               ~Yields(r, cands, k, h, s)

\* C22: find_pointer_table returns a table only if its six longwords are
\* ordered (nat_start < club_start < cust_start, each start before its end,
\* each end at most the next start, 0x010000 < nat_start < 0x040000) and one
\* of its three start pointers is T - 150 for an offset T the scan accepted;
\* it returns the first such table in candidate, occurrence and slot order,
\* and fails when no candidate yields one.
C22_LocatorResult ==
    JustDecoded => LocatorClaim(rom, auto_find_teams(rom, SCAN_START, SCAN_END),
                                 find_pointer_table(rom))

\* an image with two valid tables was decoded from the first one
C22_Witness ==
    /\ pc = "doc"
    /\ log = <<>>
    /\ \E h \in LongwordOffsets(rom) :
          /\ h > EditionTable + 8
          /\ Yields(rom, auto_find_teams(rom, SCAN_START, SCAN_END), 1, h, 2)
    /\ find_pointer_table(rom).ptrs.table_base = EditionTable

\* v is a value of the set lo..hi, or a name of the table, of an enum field
EnumWithin(v, names, lo, hi) ==
    IF v.isstr THEN \E k \in DOMAIN names : names[k] = v.sv
    ELSE lo <= v.iv /\ v.iv <= hi

SlotWithin(v) ==
    IF v.isstr THEN \E k \in DOMAIN POSITION_NAMES : POSITION_NAMES[k] = v.sv
    ELSE v.iv \in (0..10) \cup {15}

KitWithin(k) ==
    /\ "style" \in DOMAIN k => EnumWithin(k.style, STYLE_NAMES, 0, 3)
    /\ \A f \in {"shirt1", "shirt2", "shorts", "socks"} :
          f \in DOMAIN k => EnumWithin(k[f], COLOUR_TABLE, 1, 15)

PlayerWithin(q) ==
    /\ "position" \in DOMAIN q => SlotWithin(q.position)
    /\ "number" \in DOMAIN q => q.number \in 1..16
    /\ "role" \in DOMAIN q => EnumWithin(q.role, ROLE_NAMES, 0, 3)
    /\ "head" \in DOMAIN q => EnumWithin(q.head, HEAD_NAMES, 0, 2)

\* every value the team holds lies in its set: kit style 0..3, kit colour
\* 1..15, formation slot {0..10, 15}, shirt number 1..16, role 0..3, head
\* 0..2, tactic 0..7, skill 0..7, flag 0..1
TeamWithin(t) ==
    /\ "tactic" \in DOMAIN t => EnumWithin(t.tactic, TACTIC_NAMES, 0, 7)
    /\ "skill" \in DOMAIN t => t.skill \in 0..7
    /\ "flag" \in DOMAIN t => t.flag \in 0..1
    /\ "kit" \in DOMAIN t =>
          \A prefix \in DOMAIN t.kit : KitWithin(t.kit[prefix])
    /\ \A j \in 1..Len(t.players) : PlayerWithin(t.players[j])

\* errors holds a range error for team i of category c
RangeErrorFor(errors, c, i) ==
    \E e \in Range(errors) : e[1] \in {"enum", "range"} /\ e[2] = c /\ e[3] = i

\* C23 (as stated): validate_teams reports a range error for a team exactly
\* when the team holds a value outside its set: kit style 0..3, kit colour
\* 1..15, formation slot {0..10, 15}, shirt number 1..16, role 0..3, head
\* 0..2, tactic 0..7, skill 0..7, flag 0..1, or a name outside the table of
\* the field.
C23_ValidationRanges ==
    (Validated /\ val.err = "") =>
        \A c \in {"national", "club", "custom"} :
            ReachesContent(c) =>
                \A i \in 1..Len(doc[c]) :
                    RangeErrorFor(val.errors, c, i) <=> ~TeamWithin(doc[c][i])

\* update_rom returned an image whose three regions chain-walk
WroteBlocks ==
    /\ Called /\ upd.err = ""
    /\ AllWalk(upd.out, read_table(upd.out, upd.ptrs.table_base))

\* the offsets of the blocks of category k in the image update_rom returned
WrittenBlocks(k) == WalksOf(upd.out, read_table(upd.out, upd.ptrs.table_base))[k].blocks

\* the number of a tactic given as a name or as an integer
TacticNumber(v) ==
    IF v.isstr THEN CHOOSE n \in DOMAIN TACTIC_NAMES : TACTIC_NAMES[n] = v.sv ELSE v.iv

\* t carries a tactic of the table: one of the eight names, or an integer 0..7
HasTactic(t) == "tactic" \in DOMAIN t /\ EnumWithin(t.tactic, TACTIC_NAMES, 0, 7)

SourceBlocks(k) == WalksOf(given.rom, upd.ptrs)[k].blocks

\* C25 (as stated): in every block update_rom writes for a team whose entry
\* has no tactic field, attribute bytes 18 and 19 are bytes 18 and 19 of the
\* same block of the source image.
C25_TacticPreserved ==
    (WroteBlocks /\ AllWalk(given.rom, upd.ptrs)) =>
        \A k \in 1..3 :
            \A i \in 1..Len(WrittenBlocks(k)) :
                (/\ i <= Len(given.doc[CATEGORIES[k]])
                 /\ i <= Len(SourceBlocks(k))
                 /\ "tactic" \notin DOMAIN given.doc[CATEGORIES[k]][i])
                    => /\ At(upd.out, WrittenBlocks(k)[i] + 18)
                             = At(given.rom, SourceBlocks(k)[i] + 18)
                       /\ At(upd.out, WrittenBlocks(k)[i] + 19)
                             = At(given.rom, SourceBlocks(k)[i] + 19)

\* the byte at a, 0 when the image does not hold it
ByteAt(r, a) == IF a >= 0 /\ a < RomLen(r) THEN At(r, a) ELSE 0

\* the n-th 5-bit value (from 0) of the stream that starts at byte off
ValueAt(r, off, n) ==
    ((ByteAt(r, off + ((5 * n) \div 8)) * 256 + ByteAt(r, off + ((5 * n) \div 8) + 1))
        \div Pow2(16 - ((5 * n) % 8) - 5)) % 32

\* the number of 5-bit values the text of the block at b holds
TextValues(r, b) == ((SizeAt(r, b) - ATTR_SIZE) * 8) \div 5

\* the n-th value of the text lies inside the 19 strings: fewer than 19
\* terminators come before it
InsideStrings(r, off, n) ==
    Cardinality({m \in 0..(n - 1) : ValueAt(r, off, m) = 0}) < NUM_STRINGS

\* one of the 19 strings of the block at b holds the value 31
CorruptBlock(r, b) ==
    \E n \in 0..(TextValues(r, b) - 1) :
        ValueAt(r, b + ATTR_SIZE, n) = 31 /\ InsideStrings(r, b + ATTR_SIZE, n)

\* the table of r is found, its regions chain-walk and P holds of a block
SomeBlock(r, p, P(_, _)) ==
    /\ p.err = ""
    /\ AllWalk(r, p.ptrs)
    /\ \E k \in 1..3 :
          \E i \in 1..Len(WalksOf(r, p.ptrs)[k].blocks) :
              P(r, WalksOf(r, p.ptrs)[k].blocks[i])

\* C26 (as stated): when one of the 19 strings of a block of the image holds
\* the 5-bit value 31, decode_rom fails with an error; it returns no document.
C26_CorruptStreamFatal ==
    (pc # "start" /\ SomeBlock(rom, find_pointer_table(rom), CorruptBlock))
        => (dec.err # "" /\ "doc" \notin DOMAIN dec)

\* one of the 19 strings of the block at b starts at a value followed by 30
\* more values without a terminator among them
OverlongBlock(r, b) ==
    \E n \in 0..(TextValues(r, b) - 31) :
        /\ n = 0 \/ ValueAt(r, b + ATTR_SIZE, n - 1) = 0
        /\ InsideStrings(r, b + ATTR_SIZE, n)
        /\ \A m \in n..(n + 30) : ValueAt(r, b + ATTR_SIZE, m) # 0

\* the names of every team of document d have at most 30 characters
NamesAtMost30(d) ==
    \A c \in DOMAIN d :
        \A i \in 1..Len(d[c]) :
            \A k \in 1..Len(TeamNames(d[c][i])) : Len(TeamNames(d[c][i])[k]) <= 30

\* C27 (as stated): decoding an image in which a string of a block runs for
\* more than 30 values without a terminator fails with an error, and no
\* string of a decoded document is longer than 30 characters.  Checked on
\* the caller's image and on every image update_rom returns.
C27_OverlongFatal ==
    /\ (pc # "start" /\ dec.err = "") => NamesAtMost30(dec.doc)
    /\ (pc # "start" /\ SomeBlock(rom, find_pointer_table(rom), OverlongBlock))
          => dec.err # ""
    /\ (pc = "redecoded" /\ redec.err = "") => NamesAtMost30(redec.doc)
    /\ (pc = "redecoded" /\ SomeBlock(upd.out, find_pointer_table(upd.out), OverlongBlock))
          => redec.err # ""

\* cust_end of the table of the image update_rom returned
NewCustEnd == BE32(upd.out, upd.ptrs.table_base + 20)

\* every byte the image r holds in [a, b) is zero
ZeroBetween(r, a, b) == \A x \in a..(b - 1) : x < RomLen(r) => At(r, x) = 0

\* C28: after a successful update_rom every byte of the returned image from
\* the new cust_end up to the original cust_end is zero, and so is every
\* byte in [new cust_end, max_end).
C28_NoStaleData ==
    (Called /\ upd.err = "")
        => /\ ZeroBetween(upd.out, NewCustEnd, upd.ptrs.cust_end)
           /\ ZeroBetween(upd.out, NewCustEnd, upd.max_end)

\* the data written ends before the original cust_end, over bytes of the
\* source image that were not zero
C28_Witness ==
    /\ Called /\ upd.err = ""
    /\ Len(given.doc.national) = 1 /\ Len(given.doc.club) = 1 /\ Len(given.doc.custom) = 1
    /\ NewCustEnd < upd.ptrs.cust_end
    /\ upd.ptrs.cust_end <= RomLen(upd.out)
    /\ upd.ptrs.cust_end <= RomLen(given.rom)
    /\ \E x \in NewCustEnd..(upd.ptrs.cust_end - 1) : At(given.rom, x) # 0

KitComplete(k) == \A f \in {"style", "shirt1", "shirt2", "shorts", "socks"} : f \in DOMAIN k

\* the team carries every field: kit, tactic, skill, flag and, for sixteen
\* players, name, number, position, role and head
TeamComplete(t) ==
    /\ \A f \in {"team", "country", "coach", "tactic", "skill", "flag", "kit", "players"} :
          f \in DOMAIN t
    /\ \A prefix \in {"first", "second"} :
          prefix \in DOMAIN t.kit /\ KitComplete(t.kit[prefix])
    /\ Len(t.players) = NUM_PLAYERS
    /\ \A j \in 1..NUM_PLAYERS :
          \A f \in {"name", "number", "position", "role", "head"} : f \in DOMAIN t.players[j]

\* d carries every field, with as many teams in each category as w has blocks
DocComplete(d, w) ==
    \A k \in 1..3 :
        /\ CATEGORIES[k] \in DOMAIN d
        /\ Len(d[CATEGORIES[k]]) = Len(w[k].blocks)
        /\ \A i \in 1..Len(d[CATEGORIES[k]]) : TeamComplete(d[CATEGORIES[k]][i])

\* the second call, on the image of the first, gives what r2, the call on
\* the first image itself, gives
SameAsDirect(r2) ==
    r2.err = "" => (upd2.res.err = "" /\ ImageEq(upd2.res.out, r2.out))

\* C29 (as stated): for documents d1 and d2 that carry every field with the
\* team counts of the image R, if update_rom(R, d1) and update_rom(R, d2)
\* succeed then update_rom(update_rom(R, d1), d2) succeeds and is
\* byte-identical to update_rom(R, d2).
C29_LastUpdateWins ==
    (/\ pc = "reapplied"
     /\ AllWalk(given.rom, upd.ptrs)
     /\ DocComplete(given.doc, WalksOf(given.rom, upd.ptrs))
     /\ DocComplete(upd2.doc, WalksOf(given.rom, upd.ptrs)))
        => SameAsDirect(update_rom(given.rom, upd2.doc))

\* decode_rom accepted the image and validate_teams reported no error for the
\* document then passed to update_rom
Accepted == Called /\ dec.err = "" /\ val.err = "" /\ val.errors = <<>>

\* C30 (as stated): for every image decode_rom accepts and every document
\* for which validate_teams returns an empty list of errors, update_rom
\* either returns an image or fails with the overflow error, and in no other
\* way (missing key, index, value or packing error).
C30_ValidateSuffices == Accepted => upd.err \in {"", OVERFLOW}

=============================================================================
